---- MODULE Spec2Model ----
(***************************************************************************)
(* A model of the wigglyair playback engine (src/src/types.rs): the shared *)
(* cells Volume, PlayState and CurrentSample, and the TrackList.           *)
(*                                                                         *)
(* Indices of Rust vectors are kept 0-based as in the source; the TLA+     *)
(* sequence element for Rust index i is seq[i + 1].                        *)
(***************************************************************************)
EXTENDS Integers, Sequences, FiniteSets, TLC

VARIABLES
    volume,        \* Volume.0 : AtomicU8
    vol_pc,        \* per thread: position inside Volume::change ("idle" | "cas")
    vol_loc,       \* per thread: locals of the fetch_update loop in Volume::change
    vol_last,      \* the last Volume call that returned: its arguments and result
    play_state,    \* PlayState.0 : AtomicBool
    ps_pc,         \* per thread: position inside PlayState::toggle ("idle" | "cas")
    ps_prev,       \* per thread: the value the toggle's fetch_update loaded
    ps_rets,       \* the values returned by the completed toggles, in update order
    ps_initial,    \* the value PlayState::with_state was given
    ps_seen,       \* the last is_paused() result, with the value stored at the load
    current_sample,\* CurrentSample.0 : AtomicU64
    cs_calls,      \* the amounts passed to advance / get_and_advance so far
    cs_last,       \* the last get_and_advance call: amount, position in cs_calls, returned
    track_list,    \* TrackList { tracks, total_samples }
    tl_query,      \* the last find_playing call: argument and result
    tl_point,      \* the last get_start_point / get_end_point / get_sample_count call
    skip_secs,     \* SkipSecs.0 : AtomicU64
    sk_parsed,     \* the minutes and seconds whose "MM:SS" SkipSecs::parse was given
    sk_log,        \* the skip_forward and drain calls made so far, with their results
    rd_pc,         \* file reader thread: "packet", "send", "sleep" or "done"
    rd_file,       \* file reader: index of the path being read
    rd_offset,     \* file reader: frames of that file already decoded
    rd_samples,    \* file reader: `samples`, the buffer it is trying to send
    rd_skip,       \* file reader: `skip_samples`
    queue,         \* the samples channel, bounded::<Vec<f32>>
    cb_pc,         \* output callback: "idle" between invocations, else its position
    cb_buf,        \* output callback: `buf`, the residual buffer
    cb_initialized,\* output callback: `initialized`
    cb_is_done,    \* output callback: `is_done`
    cb_volume,     \* output callback: the local `volume`
    cb_max,        \* output callback: `max`
    cb_sample_count, \* output callback: `sample_count`
    data,          \* the device slice the callback writes
    orch_pc,       \* the thread Player::start spawns: "join", "recv", "received", "finished"
    current_track, \* Player.current_track : AtomicUsize
    enqueued,      \* every sample the reader has sent, in the order sent
    emitted,       \* every queue sample the callback has copied into data, in order
    cb_added,      \* the sum of what the callback's get_and_advance calls added
    cb_entry,      \* current_sample as it was when the invocation was entered
    cb_throughout, \* is_paused() held at entry and play_state has not changed since
    pl_state,      \* Player: "none", "constructed", "panicked" (no Player value) or "started"
    pl_params,     \* Player.audio_params
    rd_refused,    \* file reader: try_send has found the channel full for the buffer at hand
    rd_faults,     \* the failures the reader has met: kind, file, frame offset
    cb_promoted,   \* promote_current_thread_to_real_time: "none", "ok" or "failed"
    cb_recv_volumes \* the volume in force at each try_recv of the invocation that gave a buffer

vars == << volume, vol_pc, vol_loc, vol_last,
           play_state, ps_pc, ps_prev, ps_rets, ps_initial, ps_seen,
           current_sample, cs_calls, cs_last,
           track_list, tl_query, tl_point,
           skip_secs, sk_parsed, sk_log,
           rd_pc, rd_file, rd_offset, rd_samples, rd_skip, queue,
           cb_pc, cb_buf, cb_initialized, cb_is_done, cb_volume, cb_max,
           cb_sample_count, data, orch_pc, current_track,
           enqueued, emitted, cb_added, cb_entry, cb_throughout,
           pl_state, pl_params, rd_refused, rd_faults, cb_promoted,
           cb_recv_volumes >>

volumeVars  == << volume, vol_pc, vol_loc, vol_last >>
playVars    == << play_state, ps_pc, ps_prev, ps_rets, ps_initial, ps_seen >>
sampleVars  == << current_sample, cs_calls, cs_last >>
trackVars   == << track_list, tl_query, tl_point >>
skipVars    == << skip_secs, sk_parsed, sk_log >>
readerVars  == << rd_pc, rd_file, rd_offset, rd_samples, rd_skip, rd_refused,
                  rd_faults >>
callbackLocals == << cb_pc, cb_buf, cb_initialized, cb_is_done, cb_volume, cb_max,
                     cb_sample_count, data, cb_added, cb_entry, cb_promoted,
                     cb_recv_volumes >>
callbackVars == << callbackLocals, cb_throughout >>
playerVars  == << readerVars, queue, callbackVars, orch_pc, current_track,
                  enqueued, emitted >>
constructVars == << pl_state, pl_params >>

(***************************************************************************)
(* Integer widths                                                          *)
(***************************************************************************)
U8_MAX == 255
\* u64 and usize values are plain integers here: the sample counts of the
\* model stay far below 2^64, so no u64 operation of the model can wrap

\* `x as u8` of a value already reduced to 0..=255 or wrapped into it
AsU8(x) == x % (U8_MAX + 1)

\* `x as i16`: two's complement wrap into -32768..=32767
AsI16(x) == ((x + 32768) % 65536) - 32768

\* i16::clamp(lo, hi)
ClampI16(x, lo, hi) == IF x < lo THEN lo ELSE IF x > hi THEN hi ELSE x

Min(a, b) == IF a < b THEN a ELSE b
Max(a, b) == IF a > b THEN a ELSE b

(***************************************************************************)
(* Threads that hold a handle on the shared cells.                         *)
(***************************************************************************)
Threads == {"tui", "stdin"}

(***************************************************************************)
(* Strings handed to Volume::set_from_string, as sequences of characters.  *)
(***************************************************************************)
Digits == {"0", "1", "2", "3", "4", "5", "6", "7", "8", "9"}

DigitValue(c) ==
    CASE c = "0" -> 0 [] c = "1" -> 1 [] c = "2" -> 2 [] c = "3" -> 3
      [] c = "4" -> 4 [] c = "5" -> 5 [] c = "6" -> 6 [] c = "7" -> 7
      [] c = "8" -> 8 [] c = "9" -> 9

IsWhitespace(c) == c = " "

RECURSIVE TrimStart(_)
TrimStart(s) ==
    IF s # << >> /\ IsWhitespace(Head(s)) THEN TrimStart(Tail(s)) ELSE s

RECURSIVE TrimEnd(_)
TrimEnd(s) ==
    IF s # << >> /\ IsWhitespace(s[Len(s)])
    THEN TrimEnd(SubSeq(s, 1, Len(s) - 1))
    ELSE s

\* str::trim
Trim(s) == TrimEnd(TrimStart(s))

ParseFailed == [ok |-> FALSE, value |-> 0]

\* the digit loop of u8::from_str: checked multiply by 10, checked add
RECURSIVE ParseDigits(_, _)
ParseDigits(s, acc) ==
    IF s = << >> THEN [ok |-> TRUE, value |-> acc]
    ELSE IF Head(s) \notin Digits THEN ParseFailed
    ELSE LET next == acc * 10 + DigitValue(Head(s))
         IN  IF next > U8_MAX THEN ParseFailed
             ELSE ParseDigits(Tail(s), next)

\* str::parse::<u8>: empty is an error, one leading '+' is accepted, a '-' is
\* an invalid digit for an unsigned type, overflow past 255 is an error
ParseU8(s) ==
    IF s = << >> THEN ParseFailed
    ELSE LET digits == IF Head(s) = "+" THEN Tail(s) ELSE s
         IN  IF digits = << >> THEN ParseFailed ELSE ParseDigits(digits, 0)

(***************************************************************************)
(* Volume                                                                  *)
(***************************************************************************)
VOLUME_MAX == 100

NoVolumeLocals == [op |-> "none", n |-> 0, prev |-> 0, new |-> 0, ret |-> 0]

NoVolumeCall ==
    [op |-> "none", n |-> 0, str |-> << >>, before |-> 0, after |-> 0,
     ret |-> 0, err |-> "Ok"]

\* a missing range check: every value is stored
VolumeSetRejectsNothing(value) == FALSE

\* an off-by-one range check
VolumeSetRejectsMax(value) == value >= VOLUME_MAX

\* the test `value > Self::MAX` of Volume::set and of TryFrom<u8>
VolumeSetRejects(value) == value > VOLUME_MAX

\* the sum computed in u8 with wrap-around, then capped
ChangeNewWrapping(prev, value) == Min(AsU8(prev + value), VOLUME_MAX)

\* the closure of Volume::change: (prev as i16 + value as i16).clamp(0, 100)
ChangeNew(prev, value) ==
    ClampI16(AsI16(AsI16(prev) + AsI16(value)), 0, VOLUME_MAX)

\* `ret = new as u8`, the value Volume::change hands back
ChangeRet(prev, new) == AsU8(new)

\* the i16 argument Volume::up / Volume::down give to change
ChangeValue(op, n) == IF op = "up" THEN AsI16(n) ELSE AsI16(0 - AsI16(n))

\* one evaluation of the fetch_update closure on a loaded value
ChangeLocals(op, n, prev) ==
    LET new == ChangeNew(prev, ChangeValue(op, n))
    IN  [op |-> op, n |-> n, prev |-> prev, new |-> AsU8(new),
         ret |-> ChangeRet(prev, new)]

\* Volume::up / Volume::down enter change: fetch_update loads the cell and
\* runs the closure once
VolumeChangeLoad(t, op, n) ==
    /\ vol_pc[t] = "idle"
    /\ vol_pc' = [vol_pc EXCEPT ![t] = "cas"]
    /\ vol_loc' = [vol_loc EXCEPT ![t] = ChangeLocals(op, n, volume)]
    /\ UNCHANGED << volume, vol_last >>

VolumeUp(t, n) == VolumeChangeLoad(t, "up", n)

VolumeDown(t, n) == VolumeChangeLoad(t, "down", n)

\* the compare_exchange of fetch_update: on success the new value is stored
\* and change returns `ret`; on failure the closure runs again on the value
\* the failed exchange saw
VolumeChangeCas(t) ==
    /\ vol_pc[t] = "cas"
    /\ IF volume = vol_loc[t].prev
       THEN /\ volume' = vol_loc[t].new
            /\ vol_pc' = [vol_pc EXCEPT ![t] = "idle"]
            /\ vol_loc' = [vol_loc EXCEPT ![t] = NoVolumeLocals]
            /\ vol_last' = [op |-> vol_loc[t].op, n |-> vol_loc[t].n,
                            str |-> << >>, before |-> volume,
                            after |-> vol_loc[t].new, ret |-> vol_loc[t].ret,
                            err |-> "Ok"]
       ELSE /\ vol_loc' = [vol_loc EXCEPT
                             ![t] = ChangeLocals(vol_loc[t].op, vol_loc[t].n, volume)]
            /\ UNCHANGED << volume, vol_pc, vol_last >>

\* the effect of Volume::set on the cell and its result
SetOutcome(op, str, value) ==
    IF VolumeSetRejects(value)
    THEN /\ vol_last' = [op |-> op, n |-> value, str |-> str, before |-> volume,
                         after |-> volume, ret |-> value, err |-> "InvalidValue"]
         /\ UNCHANGED volume
    ELSE /\ volume' = value
         /\ vol_last' = [op |-> op, n |-> value, str |-> str, before |-> volume,
                         after |-> value, ret |-> 0, err |-> "Ok"]

VolumeSet(t, value) ==
    /\ vol_pc[t] = "idle"
    /\ SetOutcome("set", << >>, value)
    /\ UNCHANGED << vol_pc, vol_loc >>

VolumeSetFromString(t, str) ==
    /\ vol_pc[t] = "idle"
    /\ LET parsed == ParseU8(Trim(str))
       IN  IF ~parsed.ok
           THEN /\ vol_last' = [op |-> "set_from_string", n |-> 0, str |-> str,
                                before |-> volume, after |-> volume, ret |-> 0,
                                err |-> "InvalidString"]
                /\ UNCHANGED volume
           ELSE SetOutcome("set_from_string", str, parsed.value)
    /\ UNCHANGED << vol_pc, vol_loc >>

\* Volume::default() and the successful results of Volume::try_from(u8)
VolumeConstructed(candidates) ==
    {VOLUME_MAX} \cup {v \in candidates : ~VolumeSetRejects(v)}

(***************************************************************************)
(* PlayState                                                               *)
(***************************************************************************)
MaxToggles == 4

\* a plain store in place of the compare_exchange: the exchange never fails
ToggleStoresAlways(current, expected) == TRUE

\* the compare_exchange of toggle's fetch_update succeeds when the cell still
\* holds the value the loop loaded
ToggleExchanges(current, expected) == current = expected

\* the closure of PlayState::toggle: |v| Some(!v)
ToggleNew(v) == ~v

\* PlayState::is_paused: !load()
IsPaused(stored) == ~stored

PendingToggles == {t \in Threads : ps_pc[t] = "cas"}

\* PlayState::toggle enters fetch_update: the cell is loaded
ToggleLoad(t) ==
    /\ ps_pc[t] = "idle"
    /\ Len(ps_rets) + Cardinality(PendingToggles) < MaxToggles
    /\ ps_pc' = [ps_pc EXCEPT ![t] = "cas"]
    /\ ps_prev' = [ps_prev EXCEPT ![t] = play_state]
    /\ UNCHANGED << play_state, ps_rets, ps_initial, ps_seen >>

\* the compare_exchange of fetch_update: on success the flipped value is
\* stored and toggle returns Ok(previous); on failure the loop retries with
\* the value the failed exchange saw
ToggleCas(t) ==
    /\ ps_pc[t] = "cas"
    /\ IF ToggleExchanges(play_state, ps_prev[t])
       THEN /\ play_state' = ToggleNew(ps_prev[t])
            /\ ps_rets' = Append(ps_rets, ps_prev[t])
            /\ ps_pc' = [ps_pc EXCEPT ![t] = "idle"]
            /\ UNCHANGED << ps_prev, ps_initial, ps_seen >>
       ELSE /\ ps_prev' = [ps_prev EXCEPT ![t] = play_state]
            /\ UNCHANGED << play_state, ps_rets, ps_pc, ps_initial, ps_seen >>

PlayStateIsPaused(t) ==
    /\ ps_pc[t] = "idle"
    /\ ps_seen' = [called |-> TRUE, stored |-> play_state,
                   paused |-> IsPaused(play_state)]
    /\ UNCHANGED << play_state, ps_pc, ps_prev, ps_rets, ps_initial >>

(***************************************************************************)
(* CurrentSample                                                           *)
(***************************************************************************)
MaxAdvances == 3
MaxAmount == 2

NoSampleCall == [called |-> FALSE, n |-> 0, index |-> 0, ret |-> 0]

\* a store of the amount in place of the addition
FetchAddOverwrites(stored, n) == n

\* AtomicU64::fetch_add: the value stored
FetchAddNew(stored, n) == stored + n

\* fetch_add returning the value after the addition
FetchAddRetNew(stored, n) == stored + n

\* AtomicU64::fetch_add: the value returned, the one before the addition
FetchAddRet(stored, n) == stored

\* CurrentSample::advance, called by the file reader for skipped samples
CurrentSampleAdvance(n) ==
    /\ Len(cs_calls) < MaxAdvances
    /\ current_sample' = FetchAddNew(current_sample, n)
    /\ cs_calls' = Append(cs_calls, [by |-> "reader", n |-> n])
    /\ UNCHANGED cs_last

\* CurrentSample::get_and_advance, called by the output callback: fetch_add
\* returns the value before the addition
CurrentSampleGetAndAdvance(n) ==
    /\ Len(cs_calls) < MaxAdvances
    /\ current_sample' = FetchAddNew(current_sample, n)
    /\ cs_calls' = Append(cs_calls, [by |-> "callback", n |-> n])
    /\ cs_last' = [called |-> TRUE, n |-> n, index |-> Len(cs_calls) + 1,
                   ret |-> FetchAddRet(current_sample, n)]

(***************************************************************************)
(* Track and TrackList                                                     *)
(***************************************************************************)
MaxTracks == 3
MaxSamples == 2

TrackChannels == {2}
TrackSampleRates == {44100}

\* Track, without the path and the tags
Track ==
    [samples : 0..MaxSamples, channels : TrackChannels,
     sample_rate : TrackSampleRates]

\* Vec<Track> of a length up to len
TrackVecs(len) == UNION {[1..k -> Track] : k \in 0..len}

\* TrackList::unsafe_new
UnsafeNew == [tracks |-> << >>, total_samples |-> 0]

\* tracks.iter().map(|t| t.samples).sum::<u64>()
RECURSIVE SamplesSum(_)
SamplesSum(tracks) ==
    IF tracks = << >> THEN 0
    ELSE Head(tracks).samples + SamplesSum(Tail(tracks))

\* an assignment in place of `+=`
TotalReplaced(total, added) == added

\* `self.total_samples += ...` of add_track and add_tracks
TotalAfterAdd(total, added) == total + added

\* TrackList::add_track
AddTrack(tl, track) ==
    [tracks |-> Append(tl.tracks, track),
     total_samples |-> TotalAfterAdd(tl.total_samples, track.samples)]

\* TrackList::add_tracks
AddTracks(tl, tracks) ==
    [tracks |-> tl.tracks \o tracks,
     total_samples |-> TotalAfterAdd(tl.total_samples, SamplesSum(tracks))]

\* impl Into<TrackList> for Vec<Track>
IntoTrackList(tracks) == AddTracks(UnsafeNew, tracks)

\* the comparison with an off-by-one: a boundary sample stays on the track
\* that ends there
TotalReaches(total, at_sample) == total >= at_sample

\* the test `total > at_sample` of find_playing's fold
TotalPasses(total, at_sample) == total > at_sample

\* the index is not carried along: Continue((found, total))
FoldKeepsFound(found, i) == found

\* the index find_playing's fold carries on: Continue((i, total))
FoldContinue(found, i) == i

\* the fold_while of find_playing from item i (0-based) on, with the
\* accumulator (found, total)
RECURSIVE FindPlayingFold(_, _, _, _, _)
FindPlayingFold(tracks, i, found, total, at_sample) ==
    IF i >= Len(tracks) THEN found
    ELSE LET sum == total + tracks[i + 1].samples
         IN  IF TotalPasses(sum, at_sample)
             THEN i
             ELSE FindPlayingFold(tracks, i + 1, FoldContinue(found, i), sum,
                                  at_sample)

\* TrackList::find_playing
FindPlaying(tl, at_sample) ==
    FindPlayingFold(tl.tracks, 0, 0, 0, at_sample)

NoQuery == [asked |-> FALSE, s |-> 0, found |-> 0]

TrackListAddTrack(track) ==
    /\ Len(track_list.tracks) < MaxTracks
    /\ track_list' = AddTrack(track_list, track)
    /\ UNCHANGED << tl_query, tl_point >>

TrackListAddTracks(tracks) ==
    /\ Len(track_list.tracks) + Len(tracks) <= MaxTracks
    /\ track_list' = AddTracks(track_list, tracks)
    /\ UNCHANGED << tl_query, tl_point >>

\* a fresh list built from a Vec<Track> replaces the list at hand
TrackListFromVec(tracks) ==
    /\ track_list' = IntoTrackList(tracks)
    /\ UNCHANGED << tl_query, tl_point >>

TrackListFindPlaying(s) ==
    /\ tl_query' = [asked |-> TRUE, s |-> s, found |-> FindPlaying(track_list, s)]
    /\ UNCHANGED << track_list, tl_point >>

\* the sample positions asked about: up to one past the largest total
QuerySamples == 0..(MaxTracks * MaxSamples + 1)

\* a call that returned `value`, and a call that panicked with `msg`
Returned(value) == [panicked |-> FALSE, value |-> value, msg |-> ""]
Panicked(msg) == [panicked |-> TRUE, value |-> 0, msg |-> msg]

\* one track too many is summed
StartTakesOneMore(index, len) == Min(index + 1, len)

\* the number of tracks `.iter().take(index)` yields
StartTakes(index, len) == Min(index, len)

\* TrackList::get_start_point: the samples of the first `index` tracks
GetStartPoint(tl, index) ==
    SamplesSum(SubSeq(tl.tracks, 1, StartTakes(index, Len(tl.tracks))))

\* the condition of `assert!(index < self.tracks.len(), "Index out of bounds")`
IndexInBounds(index, len) == index < len

\* TrackList::get_sample_count: the assertion, then the indexing of the Vec,
\* which panics by itself on an index the assertion let through
GetSampleCount(tl, index) ==
    IF ~IndexInBounds(index, Len(tl.tracks)) THEN Panicked("Index out of bounds")
    ELSE IF index >= Len(tl.tracks) THEN Panicked("index out of bounds: the len is")
    ELSE Returned(tl.tracks[index + 1].samples)

\* TrackList::get_end_point: get_start_point(index) + get_sample_count(index)
GetEndPoint(tl, index) ==
    LET start == GetStartPoint(tl, index)
        count == GetSampleCount(tl, index)
    IN  IF count.panicked THEN count ELSE Returned(start + count.value)

\* a call of get_start_point, which has no failing path
GetStartPointCall(tl, index) == Returned(GetStartPoint(tl, index))

NoPoint == [op |-> "none", index |-> 0, result |-> Returned(0)]

\* the indices asked about: the valid ones and two past the end
QueryIndices == 0..(MaxTracks + 1)

TrackListGetStartPoint(index) ==
    /\ tl_point' = [op |-> "get_start_point", index |-> index,
                    result |-> GetStartPointCall(track_list, index)]
    /\ UNCHANGED << track_list, tl_query >>

TrackListGetEndPoint(index) ==
    /\ tl_point' = [op |-> "get_end_point", index |-> index,
                    result |-> GetEndPoint(track_list, index)]
    /\ UNCHANGED << track_list, tl_query >>

TrackListGetSampleCount(index) ==
    /\ tl_point' = [op |-> "get_sample_count", index |-> index,
                    result |-> GetSampleCount(track_list, index)]
    /\ UNCHANGED << track_list, tl_query >>

(***************************************************************************)
(* SkipSecs                                                                *)
(***************************************************************************)
MaxField == 3
MaxSkipCalls == 3

\* the decimal digits of n, most significant first
RECURSIVE DecimalDigits(_)
DecimalDigits(n) ==
    LET last == CHOOSE c \in Digits : DigitValue(c) = n % 10
    IN  IF n < 10 THEN << last >> ELSE Append(DecimalDigits(n \div 10), last)

\* a field of a time code as the user writes it: at least two digits
TwoDigits(n) == IF n < 10 THEN << "0" >> \o DecimalDigits(n) ELSE DecimalDigits(n)

\* the command-line text "MM:SS"
TimeCode(minutes, seconds) == TwoDigits(minutes) \o << ":" >> \o TwoDigits(seconds)

\* value.split(':'): the pieces between the colons
RECURSIVE SplitColon(_, _)
SplitColon(s, piece) ==
    IF s = << >> THEN << piece >>
    ELSE IF Head(s) = ":" THEN << piece >> \o SplitColon(Tail(s), << >>)
    ELSE SplitColon(Tail(s), Append(piece, Head(s)))

\* the digit loop of u64::from_str
RECURSIVE ParseDigitsU64(_, _)
ParseDigitsU64(s, acc) ==
    IF s = << >> THEN [ok |-> TRUE, value |-> acc]
    ELSE IF Head(s) \notin Digits THEN ParseFailed
    ELSE ParseDigitsU64(Tail(s), acc * 10 + DigitValue(Head(s)))

\* str::parse::<u64>
ParseU64(s) ==
    IF s = << >> THEN ParseFailed
    ELSE LET digits == IF Head(s) = "+" THEN Tail(s) ELSE s
         IN  IF digits = << >> THEN ParseFailed ELSE ParseDigitsU64(digits, 0)

\* `minutes * 60 + seconds` of SkipSecs::parse
SecondsOf(minutes, seconds) == minutes * 60 + seconds

\* SkipSecs::parse: two fields around one colon, each a u64; anything else
\* panics (assert_eq! / unwrap_or_log)
SkipSecsParse(s) ==
    LET parts == SplitColon(s, << >>)
    IN  IF Len(parts) # 2 THEN Panicked("assertion failed: parts.len() == 2")
        ELSE LET minutes == ParseU64(parts[1])
                 seconds == ParseU64(parts[2])
             IN  IF ~minutes.ok \/ ~seconds.ok THEN Panicked("ParseIntError")
                 ELSE Returned(SecondsOf(minutes.value, seconds.value))

\* a load in place of the swap: the budget stays in the cell
DrainKeeps(stored) == stored

\* the value `swap(0, SeqCst)` leaves in the cell
DrainLeaves(stored) == 0

\* SkipSecs::drain_as_interleaved_samples: the value returned for the seconds
\* the swap took out
DrainReturns(secs, sample_rate) == secs * sample_rate

SkipRates == {1, 10, 44100}

SkipSecsDrain(t, sample_rate) ==
    /\ Len(sk_log) < MaxSkipCalls
    /\ skip_secs' = DrainLeaves(skip_secs)
    /\ sk_log' = Append(sk_log, [op |-> "drain", by |-> t, arg |-> sample_rate,
                                  ret |-> DrainReturns(skip_secs, sample_rate)])
    /\ UNCHANGED sk_parsed

SkipSecsSkipForward(t, value) ==
    /\ Len(sk_log) < MaxSkipCalls
    /\ skip_secs' = FetchAddNew(skip_secs, value)
    /\ sk_log' = Append(sk_log, [op |-> "skip_forward", by |-> t, arg |-> value,
                                  ret |-> 0])
    /\ UNCHANGED sk_parsed

(***************************************************************************)
(* Player: the file reader thread, the samples channel, the output         *)
(* callback on the device thread, and the thread that waits for both       *)
(***************************************************************************)
QueueCapacity == 2
MaxPlayerToggles == 2
PacketFrames == 4
PlayerSampleRate == 10

\* TrackList::audio_params: the one channel count and the one sample rate of
\* the tracks (it panics on a list where they differ, and on an empty list)
AudioParamsAgree(tl) ==
    /\ Cardinality({tl.tracks[k].channels : k \in 1..Len(tl.tracks)}) = 1
    /\ Cardinality({tl.tracks[k].sample_rate : k \in 1..Len(tl.tracks)}) = 1

\* the sample rates are not looked at
SampleRatesIgnored(tl) == {0}

\* the HashSets audio_params collects
ChannelCountsOf(tl) == {tl.tracks[k].channels : k \in 1..Len(tl.tracks)}
SampleRatesOf(tl) == {tl.tracks[k].sample_rate : k \in 1..Len(tl.tracks)}

NoAudioParams == [channel_count |-> 0, sample_rate |-> 0]

\* TrackList::audio_params as a call: the two assertions, then the params
AudioParamsCall(tl) ==
    IF Cardinality(ChannelCountsOf(tl)) # 1
    THEN [panicked |-> TRUE, params |-> NoAudioParams,
          msg |-> "Multiple channel counts found in track list"]
    ELSE IF Cardinality(SampleRatesOf(tl)) # 1
    THEN [panicked |-> TRUE, params |-> NoAudioParams,
          msg |-> "Multiple samples rates found in track list"]
    ELSE [panicked |-> FALSE, msg |-> "",
          params |-> [channel_count |-> CHOOSE c \in ChannelCountsOf(tl) : TRUE,
                      sample_rate |-> tl.tracks[1].sample_rate]]

\* Player::with_state: audio_params() is evaluated while the struct is
\* built; when it panics there is no Player
PlayerWithState ==
    /\ pl_state = "none"
    /\ LET derived == AudioParamsCall(track_list)
       IN  /\ pl_state' = IF derived.panicked THEN "panicked" ELSE "constructed"
           /\ pl_params' = derived.params

\* Player::start, which takes the Player by value: the channels are made and
\* the thread that starts the reader and the device is spawned
PlayerStart ==
    /\ pl_state = "constructed"
    /\ pl_state' = "started"
    /\ UNCHANGED pl_params

AudioParams(tl) ==
    [channel_count |-> tl.tracks[1].channels,
     sample_rate |-> tl.tracks[1].sample_rate]

\* AudioParams::channel_sample_count
ChannelSampleCount(params) == params.sample_rate \div 10

\* data.len(): channel_sample_count frames of channels_count samples
DataLen(params) == ChannelSampleCount(params) * params.channel_count

\* the volume is not applied
ScaleNot(sample, vol) == [src |-> sample, vol |-> VOLUME_MAX]

\* a sample of the queue multiplied by volume / 100, and the 0.0 of padding
Scale(sample, vol) == [src |-> sample, vol |-> vol]
Silence == [src |-> 0, vol |-> 0]
Zeros(len) == [k \in 1..len |-> Silence]

\* the non-padding samples of a slice, as the decoded samples they came from
Sources(slice) == [k \in 1..Len(slice) |-> slice[k].src]

\* the interleaved samples of `frames` frames of file `file` from frame
\* `offset` on, each named by its position in the whole playlist
DecodedPacket(tl, file, offset, frames) ==
    LET channel_count == AudioParams(tl).channel_count
        first == (GetStartPoint(tl, file) + offset) * channel_count
    IN  [k \in 1..(frames * channel_count) |-> first + k]

\* ---- start_file_reader ----

\* File::open, the probe and the decoder all succeeded for the next path
ReaderOpen ==
    /\ rd_pc = "open"
    /\ rd_file < Len(track_list.tracks)
    /\ rd_pc' = "packet"
    /\ UNCHANGED << rd_file, rd_offset, rd_samples, rd_skip, rd_refused,
                    rd_faults, queue, enqueued, skip_secs, current_sample >>

\* the frames of the packet next_packet() gives next
NextPacketFrames ==
    Min(PacketFrames, track_list.tracks[rd_file + 1].samples - rd_offset)

\* format.next_packet() and decoder.decode() gave a buffer: the pending skip
\* is drained from SkipSecs, taken off the front of the samples and added to
\* current_sample; what is left, if anything, is to be sent
ReaderDecode ==
    /\ rd_pc = "packet"
    /\ rd_file < Len(track_list.tracks)
    /\ rd_offset < track_list.tracks[rd_file + 1].samples
    /\ LET frames == NextPacketFrames
           decoded == DecodedPacket(track_list, rd_file, rd_offset, frames)
           duration == Len(decoded)
           skip_samples == rd_skip + DrainReturns(skip_secs,
                                         AudioParams(track_list).sample_rate)
           remove == Min(skip_samples, duration)
           samples == IF skip_samples > 0
                      THEN SubSeq(decoded, remove + 1, duration) ELSE decoded
       IN  /\ skip_secs' = DrainLeaves(skip_secs)
           /\ current_sample' = IF skip_samples > 0
                                THEN FetchAddNew(current_sample, remove)
                                ELSE current_sample
           /\ rd_skip' = IF skip_samples > 0 THEN skip_samples - remove
                         ELSE skip_samples
           /\ rd_offset' = rd_offset + frames
           /\ rd_samples' = samples
           /\ rd_pc' = IF samples = << >> THEN "packet" ELSE "send"
    /\ rd_refused' = FALSE
    /\ UNCHANGED << rd_file, rd_faults, queue, enqueued >>

\* a channel without a bound
QueueNeverFull(q) == FALSE

\* the channel holds as many buffers as its capacity
QueueIsFull(q) == Len(q) >= QueueCapacity

\* a refused buffer is let go
DroppedOnFull(samples) == << >>

\* samples = err.into_inner(): the refused buffer is taken back
KeptOnFull(samples) == samples

\* samples_rx went with the callback's closure
ReceiverDropped == cb_pc = "dropped"

\* samples_tx.try_send(samples): sent, or the channel is full and the reader
\* keeps the buffer and sleeps
ReaderTrySend ==
    /\ rd_pc = "send"
    /\ ~ReceiverDropped
    /\ IF QueueIsFull(queue)
       THEN /\ rd_pc' = "sleep"
            /\ rd_samples' = KeptOnFull(rd_samples)
            /\ rd_refused' = TRUE
            /\ UNCHANGED << queue, enqueued >>
       ELSE /\ queue' = Append(queue, rd_samples)
            /\ enqueued' = enqueued \o rd_samples
            /\ rd_samples' = << >>
            /\ rd_pc' = "packet"
            /\ UNCHANGED rd_refused
    /\ UNCHANGED << rd_file, rd_offset, rd_skip, rd_faults, skip_secs,
                    current_sample >>

\* thread::sleep(Duration::from_secs(4)) is over
ReaderWake ==
    /\ rd_pc = "sleep"
    /\ rd_pc' = "send"
    /\ UNCHANGED << rd_file, rd_offset, rd_samples, rd_skip, rd_refused,
                    rd_faults, queue, enqueued, skip_secs, current_sample >>

\* next_packet() reports the end of the file: on to the next path
ReaderNextFile ==
    /\ rd_pc = "packet"
    /\ rd_file < Len(track_list.tracks)
    /\ rd_offset >= track_list.tracks[rd_file + 1].samples
    /\ rd_file' = rd_file + 1
    /\ rd_offset' = 0
    /\ rd_pc' = "open"
    /\ UNCHANGED << rd_samples, rd_skip, rd_refused, rd_faults, queue,
                    enqueued, skip_secs, current_sample >>

\* the paths are exhausted: the thread ends and samples_tx is dropped
ReaderExit ==
    /\ rd_pc = "open"
    /\ rd_file = Len(track_list.tracks)
    /\ rd_pc' = "done"
    /\ UNCHANGED << rd_file, rd_offset, rd_samples, rd_skip, rd_refused,
                    rd_faults, queue, enqueued, skip_secs, current_sample >>

\* samples_tx is gone: the reader thread has ended, normally or by a panic
SenderDropped == rd_pc \in {"done", "panicked"}

\* ---- the output callback ----

\* `_device` lives until the closure of the spawned thread ends, by its
\* return or by a panic
DeviceExists == orch_pc \notin {"finished", "panicked"}

\* only a finished playback silences the callback
FastPathOnlyWhenDone(paused, done) == done

\* only a pause silences the callback
FastPathOnlyWhenPaused(paused, done) == paused

\* `play_state.is_paused() || is_done`
TakesFastPath(paused, done) == paused \/ done

\* the device thread calls the callback while the device exists; the callback
\* loads play_state and either takes the fast path or goes on
CallbackEnter ==
    /\ cb_pc = "idle"
    /\ DeviceExists
    /\ cb_pc' = IF TakesFastPath(IsPaused(play_state), cb_is_done)
                THEN "fast" ELSE "begin"
    /\ cb_entry' = current_sample
    /\ cb_throughout' = IsPaused(play_state)
    /\ cb_recv_volumes' = << >>
    /\ UNCHANGED cb_promoted
    /\ UNCHANGED << cb_buf, cb_initialized, cb_is_done, cb_volume, cb_max,
                    cb_sample_count, data, cb_added, queue, emitted,
                    orch_pc, current_track, current_sample >>

\* the slice is left as the last invocation wrote it
FillNot(slice) == slice

\* data.fill(0.0)
Fill(slice) == Zeros(Len(slice))

\* data.fill(0.0); return
CallbackFastReturn ==
    /\ cb_pc = "fast"
    /\ data' = Fill(data)
    /\ cb_pc' = "idle"
    /\ UNCHANGED << cb_promoted, cb_recv_volumes >>
    /\ UNCHANGED << cb_buf, cb_initialized, cb_is_done, cb_volume, cb_max,
                    cb_sample_count, cb_added, cb_entry, cb_throughout,
                    queue, emitted, orch_pc, current_track, current_sample >>

\* where the `while buf.len() < size` loop stands with this buffer
LoopTest(buf, size) == IF Len(buf) < size THEN "fill" ELSE "emit"

\* the first invocation initialises; every one loads the volume once, before
\* the refill loop
CallbackBegin ==
    /\ cb_pc = "begin"
    /\ cb_initialized' = TRUE
    /\ cb_promoted' = IF cb_initialized THEN cb_promoted ELSE "ok"
    /\ UNCHANGED cb_recv_volumes
    /\ cb_volume' = volume
    /\ cb_pc' = LoopTest(cb_buf, Len(data))
    /\ UNCHANGED << cb_buf, cb_is_done, cb_max, cb_sample_count, data,
                    cb_added, cb_entry, cb_throughout,
                    queue, emitted, orch_pc, current_track, current_sample >>

\* the newest buffer of the channel is taken
TryRecvNewest(q) == [samples |-> q[Len(q)], rest |-> SubSeq(q, 1, Len(q) - 1)]

\* what try_recv takes from a channel that holds a buffer: the oldest
TryRecv(q) == [samples |-> Head(q), rest |-> Tail(q)]

\* buf.append(&mut tmp)
BufAppend(buf, tmp) == buf \o tmp

\* samples_rx.try_recv(): a buffer, scaled and appended; Empty, which ends
\* the loop; or Disconnected (no buffer left and the sender dropped), which
\* leads to the done signal
CallbackTryRecv ==
    /\ cb_pc = "fill"
    /\ IF queue # << >>
       THEN LET samples == TryRecv(queue).samples
                tmp == [k \in 1..Len(samples) |-> Scale(samples[k], cb_volume)]
            IN  /\ cb_buf' = BufAppend(cb_buf, tmp)
                /\ queue' = TryRecv(queue).rest
                /\ cb_pc' = LoopTest(cb_buf', Len(data))
                /\ cb_recv_volumes' = Append(cb_recv_volumes, volume)
       ELSE /\ cb_pc' = IF SenderDropped THEN "send_done" ELSE "emit"
            /\ UNCHANGED << cb_buf, queue, cb_recv_volumes >>
    /\ UNCHANGED cb_promoted
    /\ UNCHANGED << cb_initialized, cb_is_done, cb_volume, cb_max,
                    cb_sample_count, data, cb_added, cb_entry, cb_throughout,
                    emitted, orch_pc, current_track, current_sample >>

\* done_tx.send(()) on the bounded(0) channel: the send completes when the
\* spawned thread is in done_rx.recv(), and not before
CallbackSendDone ==
    /\ cb_pc = "send_done"
    /\ orch_pc = "recv"
    /\ orch_pc' = "received"
    /\ cb_is_done' = TRUE
    /\ cb_pc' = "emit"
    /\ UNCHANGED << cb_promoted, cb_recv_volumes >>
    /\ UNCHANGED << cb_buf, cb_initialized, cb_volume, cb_max,
                    cb_sample_count, data, cb_added, cb_entry, cb_throughout,
                    queue, emitted, current_track, current_sample >>

\* the whole buffer is let go
BufClear(buf, max) == << >>

\* buf.drain(..max)
BufDrain(buf, max) == SubSeq(buf, max + 1, Len(buf))

\* tmp.extend_from_slice(slice); tmp.resize(size, 0.0), and the slice itself
\* when max == size
PadToSize(slice, size) == slice \o Zeros(size - Len(slice))

\* max = size.min(buf.len()); the first max samples of buf are copied into
\* data, zero-padded to size, and drained from buf
CallbackEmit ==
    /\ cb_pc = "emit"
    /\ LET size == Len(data)
           max == Min(size, Len(cb_buf))
           slice == SubSeq(cb_buf, 1, max)
       IN  /\ data' = PadToSize(slice, size)
           /\ emitted' = emitted \o Sources(slice)
           /\ cb_buf' = BufDrain(cb_buf, max)
           /\ cb_max' = max
    /\ cb_pc' = "advance"
    /\ UNCHANGED << cb_promoted, cb_recv_volumes >>
    /\ UNCHANGED << cb_initialized, cb_is_done, cb_volume, cb_sample_count,
                    cb_added, cb_entry, cb_throughout,
                    queue, orch_pc, current_track, current_sample >>

\* the whole slice is counted, in samples
AdvanceBySamples(max, channel_count) == max

\* `max as u64 / channel_count as u64`
AdvanceAmount(max, channel_count) == max \div channel_count

\* sample_count = current_sample.get_and_advance(max / channel_count)
CallbackAdvance ==
    /\ cb_pc = "advance"
    /\ LET n == AdvanceAmount(cb_max, AudioParams(track_list).channel_count)
       IN  /\ cb_sample_count' = FetchAddRet(current_sample, n)
           /\ current_sample' = FetchAddNew(current_sample, n)
           /\ cb_added' = cb_added + n
    /\ cb_pc' = "store"
    /\ UNCHANGED << cb_promoted, cb_recv_volumes >>
    /\ UNCHANGED << cb_buf, cb_initialized, cb_is_done, cb_volume, cb_max,
                    data, cb_entry, cb_throughout,
                    queue, emitted, orch_pc, current_track >>

\* current_track.store(track_list.find_playing(sample_count)); return
CallbackStore ==
    /\ cb_pc = "store"
    /\ current_track' = FindPlaying(track_list, cb_sample_count)
    /\ cb_pc' = "idle"
    /\ UNCHANGED << cb_promoted, cb_recv_volumes >>
    /\ UNCHANGED << cb_buf, cb_initialized, cb_is_done, cb_volume, cb_max,
                    cb_sample_count, data, cb_added, cb_entry, cb_throughout,
                    queue, emitted, orch_pc, current_sample >>

\* ---- the thread Player::start spawns ----

\* reader_handle.join() returns once the reader thread has ended
OrchestratorJoin ==
    /\ orch_pc = "join"
    /\ rd_pc = "done"
    /\ orch_pc' = "recv"

\* done_rx.recv() returned: the closure ends and the device is dropped
OrchestratorFinish ==
    /\ orch_pc = "received"
    /\ orch_pc' = "finished"

\* ---- failures ----
MaxFaults == 1

Fault(kind) == [kind |-> kind, file |-> rd_file, offset |-> rd_offset]

\* File::open(&path).unwrap_or_log(), the probe's unwrap_or_log() or the
\* decoder's: the reader thread panics, and samples_tx is dropped as it unwinds
ReaderOpenFails ==
    /\ rd_pc = "open"
    /\ rd_file < Len(track_list.tracks)
    /\ Len(rd_faults) < MaxFaults
    /\ rd_pc' = "panicked"
    /\ rd_faults' = Append(rd_faults, Fault("open"))
    /\ UNCHANGED << rd_file, rd_offset, rd_samples, rd_skip, rd_refused,
                    queue, enqueued, skip_secs, current_sample >>

\* the rest of the file goes with the packet
SkipsRestOfFile(offset, frames, file_frames) == file_frames

\* where the reader stands in the file after a packet it could not decode
SkipsPacket(offset, frames, file_frames) == offset + frames

\* decoder.decode() gave Error::DecodeError: logged, on to the next packet
ReaderDecodeError ==
    /\ rd_pc = "packet"
    /\ rd_file < Len(track_list.tracks)
    /\ rd_offset < track_list.tracks[rd_file + 1].samples
    /\ Len(rd_faults) < MaxFaults
    /\ rd_offset' = SkipsPacket(rd_offset, NextPacketFrames,
                                track_list.tracks[rd_file + 1].samples)
    /\ rd_faults' = Append(rd_faults, Fault("decode"))
    /\ UNCHANGED << rd_pc, rd_file, rd_samples, rd_skip, rd_refused,
                    queue, enqueued, skip_secs, current_sample >>

\* next_packet() gave an error other than the end of the file ("read"), or
\* decode() an error other than DecodeError ("fatal"): logged, and the
\* packet loop of this file is left
ReaderFileError(kind) ==
    /\ rd_pc = "packet"
    /\ rd_file < Len(track_list.tracks)
    /\ rd_offset < track_list.tracks[rd_file + 1].samples
    /\ Len(rd_faults) < MaxFaults
    /\ rd_file' = rd_file + 1
    /\ rd_offset' = 0
    /\ rd_pc' = "open"
    /\ rd_faults' = Append(rd_faults, Fault(kind))
    /\ UNCHANGED << rd_samples, rd_skip, rd_refused,
                    queue, enqueued, skip_secs, current_sample >>

\* try_send gave an error that is not is_full(), the channel is disconnected:
\* the error is logged, the buffer goes with it, and `break` leaves the loop
\* around try_send only: the packet loop goes on
ReaderSendFails ==
    /\ rd_pc = "send"
    /\ ReceiverDropped
    /\ rd_samples' = << >>
    /\ rd_pc' = "packet"
    /\ UNCHANGED << rd_file, rd_offset, rd_skip, rd_refused, rd_faults,
                    queue, enqueued, skip_secs, current_sample >>

\* promote_current_thread_to_real_time(..) gave Err: unwrap_or_log() logs it
\* and panics inside the callback
CallbackPromotionFails ==
    /\ cb_pc = "begin"
    /\ ~cb_initialized
    /\ cb_pc' = "panicked"
    /\ cb_promoted' = "failed"
    /\ UNCHANGED cb_recv_volumes
    /\ UNCHANGED << cb_buf, cb_initialized, cb_is_done, cb_volume, cb_max,
                    cb_sample_count, data, cb_added, cb_entry, cb_throughout,
                    queue, emitted, orch_pc, current_track, current_sample >>

\* the panic unwinds the thread the host runs the callback on: the closure
\* is dropped, and with it samples_rx, the buffers still in the channel and
\* done_tx (a host that aborts instead never takes this step)
CallbackUnwinds ==
    /\ cb_pc = "panicked"
    /\ cb_pc' = "dropped"
    /\ queue' = << >>
    /\ UNCHANGED << cb_buf, cb_initialized, cb_is_done, cb_volume, cb_max,
                    cb_promoted, cb_sample_count, data, cb_added, cb_entry,
                    cb_throughout, emitted, orch_pc, current_track,
                    current_sample, cb_recv_volumes >>

\* done_tx.send(()) after done_rx was dropped: Err, which is logged
CallbackSendDoneFails ==
    /\ cb_pc = "send_done"
    /\ orch_pc = "panicked"
    /\ cb_is_done' = TRUE
    /\ cb_pc' = "emit"
    /\ UNCHANGED << cb_buf, cb_initialized, cb_volume, cb_max, cb_promoted,
                    cb_sample_count, data, cb_added, cb_entry, cb_throughout,
                    queue, emitted, orch_pc, current_track, current_sample,
                    cb_recv_volumes >>

\* reader_handle.join() gave Err because the reader panicked:
\* expect_or_log("Error joining reader thread") panics, and the closure's
\* `_device` and done_rx are dropped as it unwinds
OrchestratorJoinFails ==
    /\ orch_pc = "join"
    /\ rd_pc = "panicked"
    /\ orch_pc' = "panicked"

\* done_rx.recv() gave Err because done_tx was dropped with the closure:
\* unwrap_or_log() panics
OrchestratorRecvFails ==
    /\ orch_pc = "recv"
    /\ ReceiverDropped
    /\ orch_pc' = "panicked"

\* ---- the TUI's 'p' key: play_state.toggle() ----
PlayerToggleLoad ==
    /\ Len(ps_rets) < MaxPlayerToggles
    /\ ToggleLoad("tui")
    /\ UNCHANGED cb_throughout

PlayerToggleCas ==
    /\ ToggleCas("tui")
    /\ cb_throughout' = (cb_throughout /\ play_state' = play_state)

\* ---- the TUI's Down key with shift: volume.down(10) ----
VolumeStep == 10

\* the key is pressed once, at full volume
PlayerVolumeDown ==
    /\ volume = VOLUME_MAX
    /\ VolumeDown("tui", VolumeStep)

PlayerVolumeCas == VolumeChangeCas("tui")

\* ---- the TUI's Up and Down keys ----

\* volume_modifier: 10 with shift held, 1 without
VolumeModifiers == {1, 10}

\* `from + n` and `from - n` on u8: the sum or difference when it is a u8;
\* when it is not, a panic where overflow checks are compiled in and the
\* wrapped value where they are not
KeyTo(op, from, n) ==
    LET to == IF op = "up" THEN from + n ELSE from - n
    IN  IF to \in 0..U8_MAX
        THEN {Returned(to)}
        ELSE {Panicked(IF op = "up" THEN "attempt to add with overflow"
                       ELSE "attempt to subtract with overflow"),
              Returned(AsU8(to))}

\* KeyCode::Up / KeyCode::Down: volume.up(n) / volume.down(n) begins
KeyUp(n) == VolumeUp("tui", n)
KeyDown(n) == VolumeDown("tui", n)

\* fetch_update of the key's change; when it has stored, `from` is what
\* change returned and `to` is computed from it for the log line
KeyChangeCas == VolumeChangeCas("tui")

\* one more toggle by the only thread that toggles, for which fetch_update
\* succeeds at once; the log of results keeps the latest MaxPlayerToggles
PlayerToggleAgain ==
    /\ Len(ps_rets) = MaxPlayerToggles
    /\ ps_pc["tui"] = "idle"
    /\ play_state' = ToggleNew(play_state)
    /\ ps_rets' = Append(Tail(ps_rets), play_state)
    /\ cb_throughout' = FALSE
    /\ UNCHANGED << ps_pc, ps_prev, ps_initial, ps_seen >>

(***************************************************************************)
(* Specifications.  Each one runs the operations of one type; the other    *)
(* cells stay as constructed.                                              *)
(***************************************************************************)
VolumeAtRest ==
    /\ vol_pc = [t \in Threads |-> "idle"]
    /\ vol_loc = [t \in Threads |-> NoVolumeLocals]
    /\ vol_last = NoVolumeCall

PlayStateAtRest ==
    /\ ps_pc = [t \in Threads |-> "idle"]
    /\ ps_prev = [t \in Threads |-> TRUE]
    /\ ps_rets = << >>
    /\ ps_initial = play_state
    /\ ps_seen = [called |-> FALSE, stored |-> TRUE, paused |-> FALSE]

CurrentSampleAtRest ==
    /\ current_sample = 0
    /\ cs_calls = << >>
    /\ cs_last = NoSampleCall

TrackListAtRest ==
    /\ track_list = UnsafeNew
    /\ tl_query = NoQuery
    /\ tl_point = NoPoint

\* SkipSecs::default()
SkipSecsAtRest ==
    /\ skip_secs = 0
    /\ sk_parsed = [minutes |-> 0, seconds |-> 0]
    /\ sk_log = << >>

\* Player::with_state and the locals of Player::start and start_file_reader
\* as they are initialised, with a device slice of `size` samples
PlayerStarted(size) ==
    /\ rd_pc = "open" /\ rd_file = 0 /\ rd_offset = 0
    /\ rd_samples = << >> /\ rd_skip = 0
    /\ rd_refused = FALSE /\ rd_faults = << >>
    /\ cb_promoted = "none" /\ cb_recv_volumes = << >>
    /\ queue = << >>
    /\ cb_pc = "idle" /\ cb_buf = << >>
    /\ cb_initialized = FALSE /\ cb_is_done = FALSE
    /\ cb_volume = 0 /\ cb_max = 0 /\ cb_sample_count = 0
    /\ data = Zeros(size)
    /\ orch_pc = "join"
    /\ current_track = 0
    /\ enqueued = << >> /\ emitted = << >>
    /\ cb_added = 0 /\ cb_entry = 0 /\ cb_throughout = FALSE

\* no player has been started
PlayerAtRest == PlayerStarted(0)

\* no Player has been constructed
ConstructAtRest == pl_state = "none" /\ pl_params = NoAudioParams

OnlyVolume ==
    UNCHANGED << playVars, sampleVars, trackVars, skipVars, playerVars,
                 constructVars >>
OnlyPlayState ==
    UNCHANGED << volumeVars, sampleVars, trackVars, skipVars, playerVars,
                 constructVars >>
OnlyCurrentSample ==
    UNCHANGED << volumeVars, playVars, trackVars, skipVars, playerVars,
                 constructVars >>
OnlyTrackList ==
    UNCHANGED << volumeVars, playVars, sampleVars, skipVars, playerVars,
                 constructVars >>
OnlySkipSecs ==
    UNCHANGED << volumeVars, playVars, sampleVars, trackVars, playerVars,
                 constructVars >>

\* what a step of each thread of the player leaves alone
OnlyReader ==
    UNCHANGED << volumeVars, playVars, trackVars, sk_parsed, sk_log, cs_calls,
                 cs_last, callbackVars, orch_pc, current_track, emitted,
                 constructVars >>
OnlyCallback ==
    UNCHANGED << volumeVars, playVars, trackVars, skipVars, cs_calls, cs_last,
                 readerVars, enqueued, constructVars >>
OnlyOrchestrator ==
    UNCHANGED << volumeVars, playVars, sampleVars, trackVars, skipVars,
                 readerVars, queue, callbackVars, current_track, enqueued,
                 emitted, constructVars >>
OnlyToggle ==
    UNCHANGED << volumeVars, sampleVars, trackVars, skipVars, readerVars,
                 queue, callbackLocals, orch_pc, current_track, enqueued,
                 emitted, constructVars >>

\* ---- Volume, called from two threads ----
InitialVolumes == {0, 40, 101, 200}
VolumeAmounts == {0, 60, 255}
VolumeValues == {0, 100, 101, 255}
VolumeStrings ==
    { << >>, <<"x">>, <<"-", "1">>, <<" ", "4", "0", " ">>, <<"+", "6", "0">>,
      <<"1", "0", "1">>, <<"2", "5", "6">> }

InitVolume ==
    /\ ConstructAtRest
    /\ PlayerAtRest
    /\ SkipSecsAtRest
    /\ volume \in VolumeConstructed(InitialVolumes)
    /\ VolumeAtRest
    /\ play_state = TRUE /\ PlayStateAtRest
    /\ CurrentSampleAtRest
    /\ TrackListAtRest

NextVolume ==
    \/ \E t \in Threads, n \in VolumeAmounts : VolumeUp(t, n) /\ OnlyVolume
    \/ \E t \in Threads, n \in VolumeAmounts : VolumeDown(t, n) /\ OnlyVolume
    \/ \E t \in Threads : VolumeChangeCas(t) /\ OnlyVolume
    \/ \E t \in Threads, v \in VolumeValues : VolumeSet(t, v) /\ OnlyVolume
    \/ \E t \in Threads, str \in VolumeStrings :
          VolumeSetFromString(t, str) /\ OnlyVolume

SpecVolume == InitVolume /\ [][NextVolume]_vars

\* ---- Volume under the TUI's keys, from the default volume ----
InitVolumeKeys ==
    /\ ConstructAtRest
    /\ PlayerAtRest
    /\ SkipSecsAtRest
    /\ volume = VOLUME_MAX
    /\ VolumeAtRest
    /\ play_state = TRUE /\ PlayStateAtRest
    /\ CurrentSampleAtRest
    /\ TrackListAtRest

NextVolumeKeys ==
    \/ \E n \in VolumeModifiers : KeyUp(n) /\ OnlyVolume
    \/ \E n \in VolumeModifiers : KeyDown(n) /\ OnlyVolume
    \/ KeyChangeCas /\ OnlyVolume

SpecVolumeKeys == InitVolumeKeys /\ [][NextVolumeKeys]_vars

\* ---- Volume, one call on every constructible volume with every u8 ----
InitVolumeSeq ==
    /\ ConstructAtRest
    /\ PlayerAtRest
    /\ SkipSecsAtRest
    /\ volume \in VolumeConstructed(0..U8_MAX)
    /\ VolumeAtRest
    /\ play_state = TRUE /\ PlayStateAtRest
    /\ CurrentSampleAtRest
    /\ TrackListAtRest

NoVolumeCallYet == vol_last.op = "none"

NextVolumeSeq ==
    \/ \E n \in 0..U8_MAX : NoVolumeCallYet /\ VolumeUp("tui", n) /\ OnlyVolume
    \/ \E n \in 0..U8_MAX : NoVolumeCallYet /\ VolumeDown("tui", n) /\ OnlyVolume
    \/ VolumeChangeCas("tui") /\ OnlyVolume
    \/ \E v \in 0..U8_MAX : NoVolumeCallYet /\ VolumeSet("tui", v) /\ OnlyVolume

SpecVolumeSeq == InitVolumeSeq /\ [][NextVolumeSeq]_vars

\* ---- PlayState, toggled from two threads ----
InitPlayState ==
    /\ ConstructAtRest
    /\ PlayerAtRest
    /\ SkipSecsAtRest
    /\ play_state \in BOOLEAN
    /\ PlayStateAtRest
    /\ volume = VOLUME_MAX /\ VolumeAtRest
    /\ CurrentSampleAtRest
    /\ TrackListAtRest

NextPlayState ==
    \/ \E t \in Threads : ToggleLoad(t) /\ OnlyPlayState
    \/ \E t \in Threads : ToggleCas(t) /\ OnlyPlayState
    \/ \E t \in Threads : PlayStateIsPaused(t) /\ OnlyPlayState

SpecPlayState == InitPlayState /\ [][NextPlayState]_vars

\* ---- CurrentSample, advanced by the reader and by the callback ----
InitCurrentSample ==
    /\ ConstructAtRest
    /\ PlayerAtRest
    /\ SkipSecsAtRest
    /\ CurrentSampleAtRest
    /\ volume = VOLUME_MAX /\ VolumeAtRest
    /\ play_state = TRUE /\ PlayStateAtRest
    /\ TrackListAtRest

NextCurrentSample ==
    \/ \E n \in 0..MaxAmount : CurrentSampleAdvance(n) /\ OnlyCurrentSample
    \/ \E n \in 0..MaxAmount : CurrentSampleGetAndAdvance(n) /\ OnlyCurrentSample

SpecCurrentSample == InitCurrentSample /\ [][NextCurrentSample]_vars

\* ---- TrackList ----
InitTrackList ==
    /\ ConstructAtRest
    /\ PlayerAtRest
    /\ SkipSecsAtRest
    /\ TrackListAtRest
    /\ volume = VOLUME_MAX /\ VolumeAtRest
    /\ play_state = TRUE /\ PlayStateAtRest
    /\ CurrentSampleAtRest

NextTrackList ==
    \/ \E track \in Track : TrackListAddTrack(track) /\ OnlyTrackList
    \/ \E tracks \in TrackVecs(MaxTracks) :
          TrackListAddTracks(tracks) /\ OnlyTrackList
    \/ \E tracks \in TrackVecs(MaxTracks) :
          TrackListFromVec(tracks) /\ OnlyTrackList
    \/ \E s \in QuerySamples : TrackListFindPlaying(s) /\ OnlyTrackList

SpecTrackList == InitTrackList /\ [][NextTrackList]_vars

\* ---- TrackList, built the same way and asked for the points of a track ----
NextTrackPoints ==
    \/ \E track \in Track : TrackListAddTrack(track) /\ OnlyTrackList
    \/ \E tracks \in TrackVecs(MaxTracks) :
          TrackListAddTracks(tracks) /\ OnlyTrackList
    \/ \E tracks \in TrackVecs(MaxTracks) :
          TrackListFromVec(tracks) /\ OnlyTrackList
    \/ \E i \in QueryIndices : TrackListGetStartPoint(i) /\ OnlyTrackList
    \/ \E i \in QueryIndices : TrackListGetEndPoint(i) /\ OnlyTrackList
    \/ \E i \in QueryIndices : TrackListGetSampleCount(i) /\ OnlyTrackList

SpecTrackPoints == InitTrackList /\ [][NextTrackPoints]_vars

\* ---- SkipSecs, parsed from a time code and drained from two threads ----
InitSkipSecs ==
    /\ ConstructAtRest
    /\ PlayerAtRest
    /\ \E minutes \in 0..MaxField, seconds \in 0..MaxField :
          /\ sk_parsed = [minutes |-> minutes, seconds |-> seconds]
          /\ ~SkipSecsParse(TimeCode(minutes, seconds)).panicked
          /\ skip_secs = SkipSecsParse(TimeCode(minutes, seconds)).value
    /\ sk_log = << >>
    /\ volume = VOLUME_MAX /\ VolumeAtRest
    /\ play_state = TRUE /\ PlayStateAtRest
    /\ CurrentSampleAtRest
    /\ TrackListAtRest

NextSkipSecs ==
    \/ \E t \in Threads, r \in SkipRates : SkipSecsDrain(t, r) /\ OnlySkipSecs
    \/ \E t \in Threads, v \in 1..MaxField :
          SkipSecsSkipForward(t, v) /\ OnlySkipSecs

SpecSkipSecs == InitSkipSecs /\ [][NextSkipSecs]_vars

\* ---- Player: one playlist played from start to finish ----
PlayerTrackFrames == 6
PlayerChannels == {1, 2}
PlayerSkips == {0, 1}

\* the tracks of the playlist: same length, same channel count and rate
PlayerTracks ==
    [samples : {PlayerTrackFrames}, channels : PlayerChannels,
     sample_rate : {PlayerSampleRate}]

PlayerTrackLists == {IntoTrackList(<< t, t >>) : t \in PlayerTracks}

InitPlayer ==
    /\ volume = VOLUME_MAX /\ VolumeAtRest
    /\ play_state \in BOOLEAN /\ PlayStateAtRest
    /\ CurrentSampleAtRest
    /\ track_list \in PlayerTrackLists
    /\ AudioParamsAgree(track_list)
    /\ tl_query = NoQuery /\ tl_point = NoPoint
    /\ \E seconds \in PlayerSkips :
          /\ sk_parsed = [minutes |-> 0, seconds |-> seconds]
          /\ skip_secs = SkipSecsParse(TimeCode(0, seconds)).value
    /\ sk_log = << >>
    /\ PlayerStarted(DataLen(AudioParams(track_list)))
    /\ pl_state = "started"
    /\ pl_params = AudioParamsCall(track_list).params

NextPlayer ==
    \/ ReaderOpen /\ OnlyReader
    \/ ReaderDecode /\ OnlyReader
    \/ ReaderTrySend /\ OnlyReader
    \/ ReaderWake /\ OnlyReader
    \/ ReaderNextFile /\ OnlyReader
    \/ ReaderExit /\ OnlyReader
    \/ CallbackEnter /\ OnlyCallback
    \/ CallbackFastReturn /\ OnlyCallback
    \/ CallbackBegin /\ OnlyCallback
    \/ CallbackTryRecv /\ OnlyCallback
    \/ CallbackSendDone /\ OnlyCallback
    \/ CallbackEmit /\ OnlyCallback
    \/ CallbackAdvance /\ OnlyCallback
    \/ CallbackStore /\ OnlyCallback
    \/ OrchestratorJoin /\ OnlyOrchestrator
    \/ OrchestratorFinish /\ OnlyOrchestrator
    \/ PlayerToggleLoad /\ OnlyToggle
    \/ PlayerToggleCas /\ OnlyToggle

SpecPlayer == InitPlayer /\ [][NextPlayer]_vars

\* ---- Player whose slice holds several frames, and whose last track may be
\* shorter than a slice ----
SliceSampleRate == 30
LongTrackFrames == 8
LastTrackFrames == {1, 3}

SliceTracks(samples) ==
    [samples : {samples}, channels : PlayerChannels,
     sample_rate : {SliceSampleRate}]

SliceTrackLists ==
    {IntoTrackList(<< long, last >>) :
        long \in SliceTracks(LongTrackFrames),
        last \in UNION {SliceTracks(samples) : samples \in LastTrackFrames}}

InitPlayerSlices ==
    /\ volume = VOLUME_MAX /\ VolumeAtRest
    /\ play_state \in BOOLEAN /\ PlayStateAtRest
    /\ CurrentSampleAtRest
    /\ track_list \in SliceTrackLists
    /\ AudioParamsAgree(track_list)
    /\ tl_query = NoQuery /\ tl_point = NoPoint
    /\ sk_parsed = [minutes |-> 0, seconds |-> 0]
    /\ skip_secs = SkipSecsParse(TimeCode(0, 0)).value
    /\ sk_log = << >>
    /\ PlayerStarted(DataLen(AudioParams(track_list)))
    /\ pl_state = "started"
    /\ pl_params = AudioParamsCall(track_list).params

SpecPlayerSlices == InitPlayerSlices /\ [][NextPlayer]_vars

\* ---- Player of files with an odd sample rate ----
OddSampleRate == 15

OddRateTracks ==
    [samples : {PlayerTrackFrames}, channels : PlayerChannels,
     sample_rate : {OddSampleRate}]

OddRateTrackLists == {IntoTrackList(<< t, t >>) : t \in OddRateTracks}

InitPlayerOddRate ==
    /\ volume = VOLUME_MAX /\ VolumeAtRest
    /\ play_state \in BOOLEAN /\ PlayStateAtRest
    /\ CurrentSampleAtRest
    /\ track_list \in OddRateTrackLists
    /\ AudioParamsAgree(track_list)
    /\ tl_query = NoQuery /\ tl_point = NoPoint
    /\ \E seconds \in PlayerSkips :
          /\ sk_parsed = [minutes |-> 0, seconds |-> seconds]
          /\ skip_secs = SkipSecsParse(TimeCode(0, seconds)).value
    /\ sk_log = << >>
    /\ PlayerStarted(DataLen(AudioParams(track_list)))
    /\ pl_state = "started"
    /\ pl_params = AudioParamsCall(track_list).params

SpecPlayerOddRate == InitPlayerOddRate /\ [][NextPlayer]_vars

\* ---- Player with files that fail and a thread that cannot be promoted ----
FileErrorKinds == {"read", "fatal"}

NextPlayerFaults ==
    \/ ReaderOpen /\ OnlyReader
    \/ ReaderDecode /\ OnlyReader
    \/ ReaderTrySend /\ OnlyReader
    \/ ReaderWake /\ OnlyReader
    \/ ReaderNextFile /\ OnlyReader
    \/ ReaderExit /\ OnlyReader
    \/ ReaderOpenFails /\ OnlyReader
    \/ ReaderDecodeError /\ OnlyReader
    \/ \E kind \in FileErrorKinds : ReaderFileError(kind) /\ OnlyReader
    \/ ReaderSendFails /\ OnlyReader
    \/ CallbackEnter /\ OnlyCallback
    \/ CallbackFastReturn /\ OnlyCallback
    \/ CallbackBegin /\ OnlyCallback
    \/ CallbackPromotionFails /\ OnlyCallback
    \/ CallbackUnwinds /\ OnlyCallback
    \/ CallbackTryRecv /\ OnlyCallback
    \/ CallbackSendDone /\ OnlyCallback
    \/ CallbackSendDoneFails /\ OnlyCallback
    \/ CallbackEmit /\ OnlyCallback
    \/ CallbackAdvance /\ OnlyCallback
    \/ CallbackStore /\ OnlyCallback
    \/ OrchestratorJoin /\ OnlyOrchestrator
    \/ OrchestratorJoinFails /\ OnlyOrchestrator
    \/ OrchestratorRecvFails /\ OnlyOrchestrator
    \/ OrchestratorFinish /\ OnlyOrchestrator
    \/ PlayerToggleLoad /\ OnlyToggle
    \/ PlayerToggleCas /\ OnlyToggle

SpecPlayerFaults == InitPlayer /\ [][NextPlayerFaults]_vars

\* ---- Player with a user who turns the volume down while it plays ----
NextPlayerVolume ==
    \/ ReaderOpen /\ OnlyReader
    \/ ReaderDecode /\ OnlyReader
    \/ ReaderTrySend /\ OnlyReader
    \/ ReaderWake /\ OnlyReader
    \/ ReaderNextFile /\ OnlyReader
    \/ ReaderExit /\ OnlyReader
    \/ CallbackEnter /\ OnlyCallback
    \/ CallbackFastReturn /\ OnlyCallback
    \/ CallbackBegin /\ OnlyCallback
    \/ CallbackTryRecv /\ OnlyCallback
    \/ CallbackSendDone /\ OnlyCallback
    \/ CallbackEmit /\ OnlyCallback
    \/ CallbackAdvance /\ OnlyCallback
    \/ CallbackStore /\ OnlyCallback
    \/ OrchestratorJoin /\ OnlyOrchestrator
    \/ OrchestratorFinish /\ OnlyOrchestrator
    \/ PlayerToggleLoad /\ OnlyToggle
    \/ PlayerToggleCas /\ OnlyToggle
    \/ PlayerVolumeDown /\ OnlyVolume
    \/ PlayerVolumeCas /\ OnlyVolume

SpecPlayerVolume == InitPlayer /\ [][NextPlayerVolume]_vars

\* ---- Player whose slice takes two packets, with a user who turns the
\* volume down ----
RefillSampleRate == 30
ShortTrackFrames == 2

RefillTracks ==
    [samples : {ShortTrackFrames}, channels : PlayerChannels,
     sample_rate : {RefillSampleRate}]

RefillTrackLists == {IntoTrackList(<< t, t, t >>) : t \in RefillTracks}

InitPlayerRefill ==
    /\ volume = VOLUME_MAX /\ VolumeAtRest
    /\ play_state \in BOOLEAN /\ PlayStateAtRest
    /\ CurrentSampleAtRest
    /\ track_list \in RefillTrackLists
    /\ AudioParamsAgree(track_list)
    /\ tl_query = NoQuery /\ tl_point = NoPoint
    /\ sk_parsed = [minutes |-> 0, seconds |-> 0]
    /\ skip_secs = SkipSecsParse(TimeCode(0, 0)).value
    /\ sk_log = << >>
    /\ PlayerStarted(DataLen(AudioParams(track_list)))
    /\ pl_state = "started"
    /\ pl_params = AudioParamsCall(track_list).params

SpecPlayerRefill == InitPlayerRefill /\ [][NextPlayerVolume]_vars

\* ---- Player with threads that keep running and a user who may toggle
\* without end ----
ReaderStep ==
    (ReaderOpen \/ ReaderDecode \/ ReaderTrySend \/ ReaderWake
        \/ ReaderNextFile \/ ReaderExit) /\ OnlyReader

CallbackStep ==
    (CallbackEnter \/ CallbackFastReturn \/ CallbackBegin \/ CallbackTryRecv
        \/ CallbackSendDone \/ CallbackEmit \/ CallbackAdvance
        \/ CallbackStore) /\ OnlyCallback

OrchestratorStep == (OrchestratorJoin \/ OrchestratorFinish) /\ OnlyOrchestrator

NextPlayerFair ==
    \/ ReaderOpen /\ OnlyReader
    \/ ReaderDecode /\ OnlyReader
    \/ ReaderTrySend /\ OnlyReader
    \/ ReaderWake /\ OnlyReader
    \/ ReaderNextFile /\ OnlyReader
    \/ ReaderExit /\ OnlyReader
    \/ CallbackEnter /\ OnlyCallback
    \/ CallbackFastReturn /\ OnlyCallback
    \/ CallbackBegin /\ OnlyCallback
    \/ CallbackTryRecv /\ OnlyCallback
    \/ CallbackSendDone /\ OnlyCallback
    \/ CallbackEmit /\ OnlyCallback
    \/ CallbackAdvance /\ OnlyCallback
    \/ CallbackStore /\ OnlyCallback
    \/ OrchestratorJoin /\ OnlyOrchestrator
    \/ OrchestratorFinish /\ OnlyOrchestrator
    \/ PlayerToggleLoad /\ OnlyToggle
    \/ PlayerToggleCas /\ OnlyToggle
    \/ PlayerToggleAgain /\ OnlyToggle

SpecPlayerFair ==
    /\ InitPlayer /\ [][NextPlayerFair]_vars
    /\ WF_vars(ReaderStep) /\ WF_vars(CallbackStep) /\ WF_vars(OrchestratorStep)

\* ---- Player construction from any track list ----
ConstructChannels == {1, 2}
ConstructSampleRates == {44100, 48000}

ConstructTracks ==
    [samples : {1}, channels : ConstructChannels,
     sample_rate : ConstructSampleRates]

OnlyConstruct ==
    UNCHANGED << volumeVars, playVars, sampleVars, trackVars, skipVars,
                 playerVars >>

InitConstruct ==
    /\ volume = VOLUME_MAX /\ VolumeAtRest
    /\ play_state \in BOOLEAN /\ PlayStateAtRest
    /\ CurrentSampleAtRest
    /\ TrackListAtRest
    /\ SkipSecsAtRest
    /\ PlayerAtRest
    /\ ConstructAtRest

NextConstruct ==
    \/ \E track \in ConstructTracks :
          /\ pl_state = "none"
          /\ TrackListAddTrack(track) /\ OnlyTrackList
    \/ PlayerWithState /\ OnlyConstruct
    \/ PlayerStart /\ OnlyConstruct

SpecConstruct == InitConstruct /\ [][NextConstruct]_vars

(***************************************************************************)
(* Properties                                                              *)
(***************************************************************************)

\* C1: under every interleaving of set, up, down and set_from_string from
\* the threads, on a Volume built by default() or a successful try_from, the
\* stored volume is in 0..=100, and every value up or down returned (or is
\* about to return from a pending exchange) is at most 100.
VolumeStaysInRange ==
    /\ volume \in 0..VOLUME_MAX
    /\ vol_last.op \in {"up", "down"} => vol_last.ret \in 0..VOLUME_MAX
    /\ \A t \in Threads : vol_pc[t] = "cas" => vol_loc[t].ret \in 0..VOLUME_MAX

\* a down() took the volume to 0 while the other thread's up()/down() holds a
\* value it loaded before that update
VolumeRaceWitness ==
    /\ vol_last.op = "down" /\ vol_last.before > 0 /\ vol_last.after = 0
    /\ volume = 0
    /\ \E t \in Threads : vol_pc[t] = "cas" /\ vol_loc[t].prev # volume

\* C2: up(n) and down(n) return the value that was stored immediately before
\* their atomic update.
ChangeReturnsPrevious ==
    vol_last.op \in {"up", "down"} => vol_last.ret = vol_last.before

\* C3: up and down saturate: after up(n) on a stored v0 the cell holds
\* min(v0 + n, 100), after down(n) it holds max(v0 - n, 0), for every v0 in
\* 0..=100 and n in 0..=255; the value the closure computes is never a
\* wrapped one.
UpDownSaturate ==
    /\ vol_last.op = "up" =>
          /\ vol_last.after = Min(vol_last.before + vol_last.n, VOLUME_MAX)
          /\ volume = vol_last.after
    /\ vol_last.op = "down" =>
          /\ vol_last.after = Max(vol_last.before - vol_last.n, 0)
          /\ volume = vol_last.after
    /\ \A t \in Threads : vol_pc[t] = "cas" =>
          vol_loc[t].new =
              IF vol_loc[t].op = "up"
              THEN Min(vol_loc[t].prev + vol_loc[t].n, VOLUME_MAX)
              ELSE Max(vol_loc[t].prev - vol_loc[t].n, 0)

\* an up(n) whose sum v0 + n does not fit a u8 has left 100 in the cell
UpPastU8Witness ==
    /\ vol_last.op = "up"
    /\ vol_last.before + vol_last.n > U8_MAX
    /\ volume = VOLUME_MAX

\* C4: set(v) returns InvalidValue(v) exactly when v > 100 and then leaves
\* the stored volume as it was; for v <= 100 it returns Ok and the stored
\* volume is v.
SetChecksRange ==
    vol_last.op = "set" =>
        /\ vol_last.err = "InvalidValue" <=> vol_last.n > 100
        /\ vol_last.n > 100 =>
              /\ vol_last.ret = vol_last.n
              /\ volume = vol_last.before
        /\ vol_last.n <= 100 =>
              /\ vol_last.err = "Ok"
              /\ volume = vol_last.n

\* set(101) on a volume of 40 was refused and the volume is still 40
SetRefusedWitness ==
    /\ vol_last.op = "set" /\ vol_last.n = 101
    /\ vol_last.err = "InvalidValue" /\ vol_last.ret = 101
    /\ vol_last.before = 40 /\ volume = 40

IsEven(k) == k % 2 = 0

RECURSIVE AmountsSum(_)
AmountsSum(calls) ==
    IF calls = << >> THEN 0
    ELSE calls[Len(calls)].n + AmountsSum(SubSeq(calls, 1, Len(calls) - 1))

\* C6: no advance is lost: current_sample is the initial 0 plus the sum of
\* the amounts of every advance (reader) and get_and_advance (callback) call,
\* and get_and_advance returned the counter as it was before its addition:
\* the sum of the amounts of the calls before it.
NoAdvanceLost ==
    /\ current_sample = AmountsSum(cs_calls)
    /\ cs_last.called =>
          cs_last.ret = AmountsSum(SubSeq(cs_calls, 1, cs_last.index - 1))

\* the reader and the callback both advanced by a positive amount, and the
\* callback's call came after the reader's
AdvanceWitness ==
    /\ cs_last.called /\ cs_last.ret > 0 /\ cs_last.n > 0
    /\ \E k \in 1..Len(cs_calls) : cs_calls[k].by = "reader" /\ cs_calls[k].n > 0
    /\ current_sample > cs_last.ret

\* the sum of samples over the tracks of Rust indices 0..=i
RECURSIVE Cumulative(_, _)
Cumulative(tracks, i) ==
    IF i < 0 THEN 0 ELSE tracks[i + 1].samples + Cumulative(tracks, i - 1)

\* C7: total_samples is the sum of tracks[i].samples after any sequence of
\* add_track and add_tracks from the empty list and after construction from
\* a Vec<Track>.
TotalIsSum ==
    track_list.total_samples =
        Cumulative(track_list.tracks, Len(track_list.tracks) - 1)

\* a full list with a positive total
TotalWitness ==
    /\ Len(track_list.tracks) = MaxTracks
    /\ track_list.total_samples > MaxSamples
    /\ \A k \in 1..MaxTracks : track_list.tracks[k].samples > 0

AllPositive(tracks) == \A k \in 1..Len(tracks) : tracks[k].samples > 0

\* the find_playing call recorded last was made on the list as it is now
QueryIsCurrent ==
    /\ tl_query.asked
    /\ tl_query.found = FindPlaying(track_list, tl_query.s)

\* C8: on a non-empty list of tracks with positive sample counts, for every
\* s < total_samples, find_playing(s) is the smallest index whose cumulative
\* sample count is strictly greater than s.
FindPlayingIsSmallest ==
    (track_list.tracks # << >> /\ AllPositive(track_list.tracks)) =>
        \A s \in QuerySamples : s < track_list.total_samples =>
            LET found == FindPlaying(track_list, s)
            IN  /\ found \in 0..(Len(track_list.tracks) - 1)
                /\ Cumulative(track_list.tracks, found) > s
                /\ \A j \in 0..(found - 1) : Cumulative(track_list.tracks, j) <= s

\* find_playing answered with the last of three positive tracks
FindPlayingWitness ==
    /\ QueryIsCurrent
    /\ Len(track_list.tracks) = 3 /\ AllPositive(track_list.tracks)
    /\ tl_query.s < track_list.total_samples
    /\ tl_query.found = 2

\* C9: find_playing is monotone: s1 <= s2 implies find_playing(s1) <=
\* find_playing(s2), for every list and also at or past total_samples.
FindPlayingMonotone ==
    \A s1, s2 \in QuerySamples :
        s1 <= s2 => FindPlaying(track_list, s1) <= FindPlaying(track_list, s2)

\* find_playing was asked about a sample past the end of a list of several
\* tracks and answered with the last index
PastEndWitness ==
    /\ QueryIsCurrent
    /\ Len(track_list.tracks) >= 2
    /\ track_list.total_samples > 0
    /\ tl_query.s >= track_list.total_samples
    /\ tl_query.found = Len(track_list.tracks) - 1

PointIsCurrent ==
    tl_point.result =
        CASE tl_point.op = "get_start_point" ->
                 GetStartPointCall(track_list, tl_point.index)
          [] tl_point.op = "get_end_point" -> GetEndPoint(track_list, tl_point.index)
          [] tl_point.op = "get_sample_count" ->
                 GetSampleCount(track_list, tl_point.index)
          [] OTHER -> Panicked("no call")

\* C11: for every valid index i < N, get_start_point(i) is the sum of the
\* samples of tracks 0..i-1, get_sample_count(i) is tracks[i].samples, and
\* get_end_point(i) is get_start_point(i) + tracks[i].samples.
PointsAreSums ==
    \A i \in 0..(Len(track_list.tracks) - 1) :
        /\ GetStartPoint(track_list, i) = Cumulative(track_list.tracks, i - 1)
        /\ GetSampleCount(track_list, i) = Returned(track_list.tracks[i + 1].samples)
        /\ GetEndPoint(track_list, i) =
              Returned(GetStartPoint(track_list, i) + track_list.tracks[i + 1].samples)

\* get_end_point was asked for the last of three positive tracks and
\* answered with the total
EndPointWitness ==
    /\ PointIsCurrent
    /\ tl_point.op = "get_end_point" /\ tl_point.index = 2
    /\ Len(track_list.tracks) = 3 /\ AllPositive(track_list.tracks)
    /\ tl_point.result = Returned(track_list.total_samples)

\* C12 as stated: a call of get_start_point, get_end_point or
\* get_sample_count with an index i >= N does not return a value.
OutOfBoundsNeverReturns ==
    (tl_point.op # "none" /\ PointIsCurrent
        /\ tl_point.index >= Len(track_list.tracks))
    => tl_point.result.panicked

\* the sum over the log entries k..Len(log) of the seconds skip_forward added,
\* counted back to the nearest drain
RECURSIVE ForwardedSince(_, _)
ForwardedSince(log, k) ==
    IF k < 1 \/ log[k].op = "drain" THEN 0
    ELSE log[k].arg + ForwardedSince(log, k - 1)

\* whether a drain was logged before position k
DrainedBefore(log, k) == \E j \in 1..(k - 1) : log[j].op = "drain"

\* the seconds in the cell just before the call logged at position k
BudgetBefore(log, k) ==
    ForwardedSince(log, k - 1)
        + (IF DrainedBefore(log, k) THEN 0
           ELSE sk_parsed.minutes * 60 + sk_parsed.seconds)

\* C13: after SkipSecs::parse("MM:SS"), the first drain at rate r returns
\* (MM*60 + SS) * r plus r times what skip_forward added before it, and every
\* later drain returns r times what skip_forward added since the drain before
\* it: 0 when there was none, whichever thread drains.
DrainConsumesOnce ==
    \A k \in 1..Len(sk_log) :
        sk_log[k].op = "drain" =>
            sk_log[k].ret = BudgetBefore(sk_log, k) * sk_log[k].arg

\* "01:02" was parsed to 62 seconds, one thread drained them at 44100 Hz and
\* the other thread's drain right after it got nothing
DrainTwiceWitness ==
    /\ sk_parsed = [minutes |-> 1, seconds |-> 2]
    /\ Len(sk_log) >= 2
    /\ sk_log[1] = [op |-> "drain", by |-> "tui", arg |-> 44100, ret |-> 62 * 44100]
    /\ sk_log[2].op = "drain" /\ sk_log[2].by = "stdin" /\ sk_log[2].ret = 0

\* the player was started paused and toggle has never succeeded
NeverPlayed == ~ps_initial /\ ps_rets = << >>

\* an invocation of the callback returns in this step
CallbackReturns == cb_pc # "idle" /\ cb_pc' = "idle"

\* C14 as stated: an invocation during which is_paused() held throughout
\* returns with current_sample as it was at its entry and with data all
\* zeros, and a player started paused and never toggled has current_sample 0.
PausedInvocationFreezes ==
    [][/\ (CallbackReturns /\ cb_throughout) =>
             (current_sample' = cb_entry /\ data' = Zeros(Len(data')))
       /\ NeverPlayed' => current_sample' = 0]_vars

\* C14 amended: no step of an invocation during which is_paused() held
\* throughout changes current_sample (only the reader's skip does), the
\* invocation returns with data all zeros, and a player started paused with
\* no skip and never toggled has current_sample 0.
PausedInvocationAddsNothing ==
    [][/\ (cb_throughout /\ cb_pc' # cb_pc) => current_sample' = current_sample
       /\ (CallbackReturns /\ cb_throughout) => data' = Zeros(Len(data'))
       /\ (NeverPlayed' /\ sk_parsed = [minutes |-> 0, seconds |-> 0])
             => current_sample' = 0]_vars

\* after samples were played the player was paused, and an invocation that
\* was paused throughout has returned: data is all zeros and current_sample
\* is what the invocation found
PausedAfterPlayingWitness ==
    /\ cb_pc = "idle" /\ cb_throughout
    /\ cb_added > 0 /\ emitted # << >>
    /\ IsPaused(play_state)
    /\ data = Zeros(Len(data))
    /\ current_sample = cb_entry

\* reader and callback are through: every file read, is_done set, no
\* invocation in progress
PlaybackComplete == rd_pc = "done" /\ cb_is_done /\ cb_pc = "idle"

\* the initial skip in frames: skip_secs * sample_rate
InitialSkipFrames ==
    (sk_parsed.minutes * 60 + sk_parsed.seconds) * AudioParams(track_list).sample_rate

\* C15 as stated: after a complete playback whose skip lies within the
\* playlist, the frames copied into the device slice number total_samples
\* minus the initial skip in frames.
SampleConservation ==
    (PlaybackComplete /\ InitialSkipFrames <= track_list.total_samples) =>
        Len(emitted) \div AudioParams(track_list).channel_count
            = track_list.total_samples - InitialSkipFrames

\* the samples the reader has passed on, in playlist and packet order: each
\* is later in the playlist than the one before
InPlaylistOrder(samples) ==
    \A k \in 1..(Len(samples) - 1) : samples[k] < samples[k + 1]

\* C16: the non-padding samples written to the device slice over all
\* invocations are, in order, the samples of the buffers the reader enqueued,
\* which are in playlist and packet order; each slice holds the samples copied
\* last followed by zeros only; after a complete playback every enqueued
\* sample has been written exactly once.
InDecodeOrder ==
    /\ Len(emitted) <= Len(enqueued)
    /\ emitted = SubSeq(enqueued, 1, Len(emitted))
    /\ InPlaylistOrder(enqueued)
    /\ cb_pc \in {"advance", "store"} =>
          /\ Sources(SubSeq(data, 1, cb_max))
                = SubSeq(emitted, Len(emitted) - cb_max + 1, Len(emitted))
          /\ SubSeq(data, cb_max + 1, Len(data)) = Zeros(Len(data) - cb_max)
    /\ PlaybackComplete => emitted = enqueued

\* a playback with a pause and an under-run (the last slice was padding
\* only) is complete and samples of both tracks were written
OrderWitness ==
    /\ PlaybackComplete
    /\ ps_rets # << >>
    /\ Len(emitted) > PlayerTrackFrames * AudioParams(track_list).channel_count
    /\ cb_max = 0

\* C17: current_sample never decreases, and the callback adds to it only in
\* the step after the copy, when the first max samples of data are the ones
\* copied, and what it adds is max / channel_count.
AdvanceAfterCopy ==
    [][/\ current_sample' >= current_sample
       /\ cb_added' # cb_added =>
             /\ cb_pc = "advance"
             /\ Sources(SubSeq(data, 1, cb_max))
                   = SubSeq(emitted, Len(emitted) - cb_max + 1, Len(emitted))
             /\ cb_added' - cb_added
                   = cb_max \div AudioParams(track_list).channel_count
             /\ current_sample' - current_sample = cb_added' - cb_added]_vars

\* a full stereo slice was copied and counted as one frame, after the reader
\* had advanced the counter for the skip
AdvanceAfterCopyWitness ==
    /\ cb_pc = "store"
    /\ AudioParams(track_list).channel_count = 2
    /\ cb_max = 2
    /\ cb_sample_count > cb_added
    /\ current_sample = cb_sample_count + 1

\* C18: current_track never goes down, whatever the reader's skip advances
\* and the pause toggles do.
CurrentTrackNeverDrops == [][current_track' >= current_track]_vars

\* the second track is current in a playback that skipped and was toggled
SecondTrackWitness ==
    /\ current_track = 1
    /\ sk_parsed.seconds = 1 /\ rd_skip = 0 /\ skip_secs = 0
    /\ ps_rets # << >>
    /\ cb_pc = "idle"

\* C19: get_and_advance gives the callback current_sample as it was before
\* the addition, the invocation stores find_playing of that value into
\* current_track, and current_sample is never below the start point of the
\* current track.
TrackFollowsSample ==
    [][/\ (cb_pc = "advance" /\ cb_pc' = "store") =>
             cb_sample_count' = current_sample
       /\ (cb_pc = "store" /\ cb_pc' = "idle") =>
             current_track' = FindPlaying(track_list, cb_sample_count)
       /\ current_sample' >= GetStartPoint(track_list, current_track')]_vars

\* the invocation that found the counter on the first sample of the second
\* track has made the second track current
TrackBoundaryWitness ==
    /\ cb_pc = "idle"
    /\ current_track = 1
    /\ cb_sample_count = GetStartPoint(track_list, 1)
    /\ sk_parsed.seconds = 0

\* C20 as stated: the callback never waits for another thread: when it
\* signals done, the spawned thread is already receiving.
CallbackNeverWaits == ~(cb_pc = "send_done" /\ orch_pc # "recv")

\* a list a player can be made of: not empty, one channel count, one rate
Acceptable(tl) ==
    /\ tl.tracks # << >>
    /\ \A j, k \in 1..Len(tl.tracks) :
          /\ tl.tracks[j].channels = tl.tracks[k].channels
          /\ tl.tracks[j].sample_rate = tl.tracks[k].sample_rate

\* C21: a track list that is empty or whose tracks disagree on sample rate
\* or channel count makes Player::with_state panic, so that no Player exists
\* that could be started; any other list gives a Player with the common
\* channel count and sample rate.
UnacceptableListRefused ==
    /\ pl_state = "panicked" => ~Acceptable(track_list)
    /\ pl_state \in {"constructed", "started"} =>
          /\ Acceptable(track_list)
          /\ pl_params = [channel_count |-> track_list.tracks[1].channels,
                          sample_rate |-> track_list.tracks[1].sample_rate]

\* construction panicked on two tracks that agree on the channel count and
\* differ in the sample rate
RefusedRatesWitness ==
    /\ pl_state = "panicked"
    /\ Len(track_list.tracks) = 2
    /\ track_list.tracks[1].channels = track_list.tracks[2].channels
    /\ track_list.tracks[1].sample_rate # track_list.tracks[2].sample_rate

\* C22: from the moment the reader has a buffer to send until the channel
\* accepts it, the reader holds exactly that buffer, decodes nothing and
\* enqueues nothing else; the step that ends the wait enqueues that buffer.
BackpressureKeepsBuffer ==
    [][(rd_pc = "send" \/ rd_pc = "sleep") =>
         /\ rd_samples # << >>
         /\ rd_file' = rd_file /\ rd_offset' = rd_offset
         /\ \/ /\ rd_pc' \in {"send", "sleep"}
               /\ rd_samples' = rd_samples
               /\ enqueued' = enqueued
            \/ /\ rd_pc' = "packet"
               /\ queue' = Append(queue, rd_samples)
               /\ enqueued' = enqueued \o rd_samples]_vars

\* a buffer the full channel had refused was enqueued on a later try, after
\* the buffers sent before it
RetriedBufferWitness ==
    /\ rd_pc = "packet" /\ rd_refused /\ rd_samples = << >>
    /\ Len(enqueued) > QueueCapacity

\* C23: the channel never holds more buffers than its capacity; the reader
\* enqueues while there is room, also while playback is paused; with the
\* channel full the reader enqueues nothing and, once it holds the one buffer
\* it retries, decodes nothing; and a paused callback takes nothing out of
\* the channel.
QueueBounded ==
    [][/\ Len(queue') <= QueueCapacity
       /\ Len(queue) >= QueueCapacity => enqueued' = enqueued
       /\ (Len(queue) >= QueueCapacity /\ rd_samples # << >>) =>
             /\ rd_samples' = rd_samples
             /\ rd_file' = rd_file /\ rd_offset' = rd_offset
       /\ (rd_pc = "send" /\ rd_pc' # "send" /\ Len(queue) < QueueCapacity) =>
             queue' = Append(queue, rd_samples)
       /\ (IsPaused(play_state) /\ cb_pc \in {"idle", "fast"}) =>
             Len(queue') >= Len(queue)]_vars

\* the player was started paused, the reader filled the channel and sleeps
\* on the next buffer
PausedQueueFullWitness ==
    /\ NeverPlayed
    /\ Len(queue) = QueueCapacity
    /\ rd_pc = "sleep" /\ rd_samples # << >>

\* C24 as stated: the spawned thread finishes if play_state does not stay
\* paused forever.
FinishesUnlessPausedForever ==
    []<>(~IsPaused(play_state)) => <>(orch_pc = "finished")

\* C24 amended: the spawned thread finishes only after the reader thread has
\* ended and the callback has set is_done, which it does only on seeing the
\* channel empty and closed in an invocation that did not take the paused
\* path; a player that was never unpaused does not finish; and the thread
\* does finish if from some point on play_state is never paused.
FinishesOnceKeptPlaying ==
    /\ [][/\ (orch_pc # "finished" /\ orch_pc' = "finished") =>
                (rd_pc = "done" /\ cb_is_done)
          /\ (~cb_is_done /\ cb_is_done') =>
                (SenderDropped /\ queue = << >> /\ ~cb_throughout)
          /\ NeverPlayed' => orch_pc' = "join" \/ orch_pc' = "recv"]_vars
    /\ <>[](~IsPaused(play_state)) => <>(orch_pc = "finished")

\* the spawned thread has finished a playback that was paused on the way
FinishedWitness ==
    /\ orch_pc = "finished"
    /\ ps_rets # << >>
    /\ rd_pc = "done" /\ cb_is_done /\ emitted = enqueued /\ emitted # << >>

\* the callback takes a buffer from the channel in this step
Dequeues == cb_pc = "fill" /\ Len(queue') < Len(queue)

\* the samples of buf' that were not in buf all carry volume `vol`
NewSamplesScaledBy(vol) ==
    \A k \in (Len(cb_buf) + 1)..Len(cb_buf') : cb_buf'[k].vol = vol

\* what stays in buf stays as it is, and what is emitted is what was in buf
BufferedSamplesKept ==
    /\ volume' # volume => cb_buf' = cb_buf
    /\ Dequeues => SubSeq(cb_buf', 1, Len(cb_buf)) = cb_buf
    /\ (cb_pc = "emit" /\ cb_pc' # "emit") =>
          /\ SubSeq(data', 1, cb_max') = SubSeq(cb_buf, 1, cb_max')
          /\ cb_buf' = SubSeq(cb_buf, cb_max' + 1, Len(cb_buf))

Range(samples) == {samples[k] : k \in DOMAIN samples}

\* the samples of file `file` from frame `offset` to the end of the file
RestOfFile(file, offset) ==
    DecodedPacket(track_list, file, offset,
                  track_list.tracks[file + 1].samples - offset)

FaultsOfKind(kinds) == {k \in DOMAIN rd_faults : rd_faults[k].kind \in kinds}

FaultyFiles == {rd_faults[k].file : k \in DOMAIN rd_faults}

NoSkip == sk_parsed.minutes = 0 /\ sk_parsed.seconds = 0

\* C26 as stated: without a skip, once the reader thread has ended it ended
\* by leaving its loop over the paths after the last file, and all samples of
\* every file that had no failure have been enqueued.
FileFailureIsolated ==
    (SenderDropped /\ NoSkip) =>
        /\ rd_pc = "done"
        /\ \A file \in 0..(Len(track_list.tracks) - 1) :
              file \notin FaultyFiles =>
                  Range(RestOfFile(file, 0)) \subseteq Range(enqueued)

\* the samples an undecodable packet or an abandoned file takes with it
LostTo(fault) ==
    IF fault.kind = "decode"
    THEN Range(DecodedPacket(track_list, fault.file, fault.offset,
                 Min(PacketFrames,
                     track_list.tracks[fault.file + 1].samples - fault.offset)))
    ELSE Range(RestOfFile(fault.file, fault.offset))

Lost == UNION {LostTo(rd_faults[k]) : k \in DOMAIN rd_faults}

AllSamples ==
    1..(track_list.total_samples * AudioParams(track_list).channel_count)

\* C27: without a skip, with every file opened and the channel not
\* disconnected, when the reader has left
\* its loop the enqueued samples are in playlist and packet order, and they
\* are all samples of the playlist but those of each packet that gave a
\* DecodeError and those from each other read or decode error to the end of
\* its file; so the packets after a DecodeError and the files after an
\* abandoned one are enqueued.
DecodeErrorSkipsPacket ==
    (rd_pc = "done" /\ NoSkip /\ ~ReceiverDropped) =>
        /\ InPlaylistOrder(enqueued)
        /\ Range(enqueued) = AllSamples \ Lost

\* the first packet of the first file gave a DecodeError, the reader has
\* left its loop, and the packet after it and the second file are enqueued
DecodeErrorWitness ==
    /\ rd_pc = "done"
    /\ NoSkip
    /\ \E k \in FaultsOfKind({"decode"}) :
          rd_faults[k].file = 0 /\ rd_faults[k].offset = 0
    /\ Range(DecodedPacket(track_list, 0, PacketFrames, 1)) \subseteq Range(enqueued)
    /\ Range(RestOfFile(1, 0)) \subseteq Range(enqueued)

\* a decode error other than DecodeError in the first file's first packet:
\* nothing of the first file is enqueued, all of the second is
FatalErrorWitness ==
    /\ rd_pc = "done"
    /\ NoSkip
    /\ \E k \in FaultsOfKind({"fatal"}) :
          rd_faults[k].file = 0 /\ rd_faults[k].offset = 0
    /\ Range(enqueued) = Range(RestOfFile(1, 0))

\* C28 as stated: a callback thread that could not be promoted goes on with
\* its invocation.
PromotionFailureIsLogged == cb_promoted = "failed" => cb_pc # "panicked"

\* ---- the skip in frames, and the end of a playback ----

\* C29 as stated: when the reader has gone through a playlist at least as
\* long as the skip, it has enqueued all its interleaved samples but those of
\* the first skip_secs * sample_rate frames, whatever the channel count.
SkipDiscardsFrames ==
    (rd_pc = "done" /\ InitialSkipFrames <= track_list.total_samples) =>
        Len(enqueued) = (track_list.total_samples - InitialSkipFrames)
                            * AudioParams(track_list).channel_count

LastTrack == Len(track_list.tracks) - 1

\* C30 as stated: after a complete playback without a skip, current_sample
\* is total_samples and current_track is the index of the last track.
EndsAtLastTrack ==
    (PlaybackComplete /\ NoSkip) =>
        /\ current_sample = track_list.total_samples
        /\ current_track = LastTrack

\* the frames written by the invocation that saw the closed queue
FinalFrames == cb_max \div AudioParams(track_list).channel_count

\* C30, amended: after a complete playback without a skip, current_sample
\* is total_samples and current_track is find_playing of the counter before
\* the last addition, which was made by the invocation that saw the closed
\* queue and wrote less than one slice; that is the index of the last track
\* when the last track has at least channel_sample_count frames.
EndsWithinLastSlice ==
    (PlaybackComplete /\ NoSkip) =>
        /\ current_sample = track_list.total_samples
        /\ FinalFrames < ChannelSampleCount(AudioParams(track_list))
        /\ current_track
              = FindPlaying(track_list, track_list.total_samples - FinalFrames)
        /\ track_list.tracks[LastTrack + 1].samples
                >= ChannelSampleCount(AudioParams(track_list))
              => current_track = LastTrack

\* a playback is complete whose last slice held the end of the first track
\* and all of a shorter last track: current_track is still the first
ShortLastTrackWitness ==
    /\ PlaybackComplete
    /\ NoSkip
    /\ current_sample = track_list.total_samples
    /\ FinalFrames > track_list.tracks[LastTrack + 1].samples
    /\ current_track = 0

\* a playback with a last track of a slice's length is complete, its last
\* slice was not empty, and current_track is the last track
LongLastTrackWitness ==
    /\ PlaybackComplete
    /\ NoSkip
    /\ track_list.tracks[LastTrack + 1].samples
          >= ChannelSampleCount(AudioParams(track_list))
    /\ FinalFrames > 0
    /\ current_track = LastTrack

\* ---- current_sample as a counter of frames ----

\* the interleaved samples the reader has decoded, and those of them it
\* dropped for the skip: neither sent nor held for sending
SamplesDecoded ==
    (GetStartPoint(track_list, rd_file) + rd_offset)
        * AudioParams(track_list).channel_count
SamplesDiscarded == SamplesDecoded - Len(enqueued) - Len(rd_samples)

\* C31 as stated: outside the callback's step between its copy and its
\* addition, current_sample counted in interleaved samples is the samples
\* the skip discarded plus the samples copied to the device.
CountsFrames ==
    cb_pc # "advance" =>
        current_sample * AudioParams(track_list).channel_count
            = SamplesDiscarded + Len(emitted)

\* C32 as stated: every buffer in the channel is a positive number of whole
\* frames, and so is the residual buffer a number of whole frames.
BuffersAreWholeFrames ==
    LET channel_count == AudioParams(track_list).channel_count
    IN  /\ \A k \in 1..Len(queue) :
              Len(queue[k]) > 0 /\ Len(queue[k]) % channel_count = 0
        /\ Len(cb_buf) % channel_count = 0

\* ---- what one invocation of the callback does ----

\* the callback makes its copy into data in this step
Emits == cb_pc = "emit" /\ cb_pc' # "emit"

\* C33: an invocation returns only from the fast path or after its copy, and
\* takes the fast path only if the player is paused or done; the copy leaves
\* data at its length, with the first max = min(size, buf.len()) entries of
\* buf followed by zeros only, and leaves in buf the entries after the first
\* max, in their order.
EmitWritesWholeSlice ==
    [][/\ (cb_pc # "idle" /\ cb_pc' = "idle") => cb_pc \in {"fast", "store"}
       /\ (cb_pc = "idle" /\ cb_pc' = "fast") =>
             (IsPaused(play_state) \/ cb_is_done)
       /\ (cb_pc # "store" /\ cb_pc' = "store") => cb_pc = "advance"
       /\ (cb_pc # "advance" /\ cb_pc' = "advance") => cb_pc = "emit"
       /\ Emits =>
             LET size == Len(data)
                 max == Min(size, Len(cb_buf))
             IN  /\ Len(data') = size
                 /\ \A k \in 1..max : data'[k] = cb_buf[k]
                 /\ \A k \in (max + 1)..size : data'[k] = Silence
                 /\ Len(cb_buf') = Len(cb_buf) - max
                 /\ \A k \in 1..Len(cb_buf') : cb_buf'[k] = cb_buf[k + max]]_vars

\* a full slice was copied and more than one sample stays in buf
ResidueKeptWitness ==
    /\ cb_pc = "advance"
    /\ cb_max = Len(data)
    /\ Len(cb_buf) > 1

\* a slice was copied that is part samples and part padding
PaddedSliceWitness ==
    /\ cb_pc = "advance"
    /\ cb_max > 0 /\ cb_max < Len(data)
    /\ data[cb_max] # Silence /\ data[Len(data)] = Silence

\* the callback enters the fast path, or returns from it, in this step
FastPathStep ==
    \/ cb_pc = "idle" /\ cb_pc' = "fast"
    \/ cb_pc = "fast" /\ cb_pc' = "idle"

\* C34: the steps of an invocation on the fast path leave the channel, the
\* residual buffer, current_sample, current_track, initialized, is_done and
\* the done channel as they are; the invocation goes from its test straight
\* to its return, where data has its length and holds zeros only.
FastPathOnlyZeroFills ==
    [][/\ FastPathStep =>
             /\ queue' = queue /\ cb_buf' = cb_buf
             /\ current_sample' = current_sample
             /\ current_track' = current_track
             /\ cb_initialized' = cb_initialized
             /\ cb_is_done' = cb_is_done
             /\ orch_pc' = orch_pc
             /\ emitted' = emitted
       /\ (cb_pc = "idle" /\ cb_pc' = "fast") => data' = data
       /\ cb_pc = "fast" =>
             /\ cb_pc' = "fast" \/ cb_pc' = "idle"
             /\ Len(queue') >= Len(queue)
             /\ cb_pc' = "idle" =>
                   /\ Len(data') = Len(data)
                   /\ \A k \in 1..Len(data') : data'[k] = Silence]_vars

\* the last invocation that copied filled the slice with samples and left a
\* residue; the player is paused, the slice now holds zeros only, and the
\* residue and a buffer in the channel are still there
FastPathWitness ==
    /\ cb_pc = "idle"
    /\ IsPaused(play_state)
    /\ cb_max = Len(data) /\ cb_max > 0
    /\ data = Zeros(Len(data))
    /\ cb_buf # << >> /\ queue # << >>

\* the callback sets is_done in this step
BecomesDone == ~cb_is_done /\ cb_is_done'

\* C35: is_done is set only by the invocation whose try_recv found the
\* channel empty and its sender dropped, when every enqueued sample has been
\* received; that invocation copies all of the residual buffer; once is_done
\* is set it stays set, nothing is received and nothing is sent on the done
\* channel again, and after that invocation every invocation goes from its
\* test to the fast return only, with no addition to current_sample.
FinishingIsAbsorbing ==
    [][/\ BecomesDone =>
             /\ cb_pc = "send_done"
             /\ queue = << >> /\ SenderDropped
             /\ Len(emitted) + Len(cb_buf) = Len(enqueued)
             /\ Len(cb_buf) < Len(data)
       /\ (cb_is_done /\ Emits) => cb_buf' = << >>
       /\ cb_is_done =>
             /\ cb_is_done'
             /\ queue' = queue
             /\ cb_pc' # "send_done"
             /\ orch_pc' # "received" \/ orch_pc = "received"
       /\ (cb_is_done /\ (cb_pc = "idle" \/ cb_pc = "fast")) =>
             /\ cb_pc' = "idle" \/ cb_pc' = "fast"
             /\ current_sample' = current_sample
             /\ current_track' = current_track
             /\ cb_added' = cb_added
             /\ cb_buf' = cb_buf /\ emitted' = emitted]_vars

\* the invocation that set is_done copied a residue shorter than the slice,
\* and a later invocation of the playing player has zero-filled the slice
AfterDoneWitness ==
    /\ cb_is_done /\ cb_pc = "idle"
    /\ ~IsPaused(play_state)
    /\ cb_max > 0 /\ cb_max < Len(data)
    /\ data = Zeros(Len(data))
    /\ emitted = enqueued

\* C36 as stated: the step in which try_send finds the channel disconnected
\* ends the reader thread.
SendErrorStopsReader ==
    [][(rd_pc = "send" /\ ReceiverDropped /\ rd_pc' # "send") =>
            rd_pc' = "done"]_vars

\* ---- the volume of the buffers one invocation receives ----

\* the invocation is in or just past its refill loop and has received a buffer
HasReceived ==
    /\ cb_pc \in {"fill", "send_done", "emit"}
    /\ cb_recv_volumes # << >>

CurrentTrackIsAnIndex ==
    /\ track_list.tracks # << >>
    /\ current_track \in 0..LastTrack
    /\ \A s \in 0..(track_list.total_samples + 1) :
          /\ FindPlaying(track_list, s) \in 0..LastTrack
          /\ s >= track_list.total_samples =>
                FindPlaying(track_list, s) = LastTrack

\* the callback has asked find_playing about a counter that is at or past
\* total_samples and stored the index of the last track
PastTotalStoredWitness ==
    /\ cb_pc = "idle"
    /\ cb_sample_count >= track_list.total_samples
    /\ current_track = LastTrack /\ LastTrack > 0

\* C39 as stated: with every file decoded to its end, current_sample is at
\* most total_samples, whatever the skip and the channel count.
NeverPastTotal == current_sample <= track_list.total_samples

\* ---- the arithmetic of the volume keys ----

\* C40 as stated: after a key's up(n) or down(n), `to` computed from the
\* value it returned is a u8 without wrapping and without a panic.
KeysNeverOverflow ==
    vol_last.op \in {"up", "down"} =>
        LET to == IF vol_last.op = "up" THEN vol_last.ret + vol_last.n
                  ELSE vol_last.ret - vol_last.n
        IN  KeyTo(vol_last.op, vol_last.ret, vol_last.n) = {Returned(to)}

====
